---- MODULE Spec2Model ----
(***************************************************************************)
(* Card identity resolution and pricing of cardsnipe-backend:              *)
(*   SportsCardProClient.parseSCPProduct / parseTitle / getMarketValue     *)
(*   (src/src/services/sportscardpro.js, the revision at lines 307-880)    *)
(*   PriceService.getMarketValue / calculateDealScore                      *)
(*   (src/src/services/pricing.js, 1-100),                                 *)
(*   EbayClient.transformListings / parseCardDetails                       *)
(*   (src/src/services/ebay.js),                                           *)
(*   processListings of the worker (src/src/worker.js, 490-760),           *)
(*   detectParallel of src/src/services/card-sets.js and the listings of   *)
(*   COMCClient.searchListings (src/src/services/comc.js).                 *)
(*                                                                         *)
(* JavaScript strings are TLA+ strings read character by character         *)
(* (Len, SubSeq, \o).  null/undefined of a string-valued field is the      *)
(* reserved string `null'; a number that may be absent or NaN is a         *)
(* sequence of length 0 or 1 (<<>> absent, <<n>> present).  A numeric year *)
(* is written as its decimal string, which is what String(), template      *)
(* literals and parseInt make of it.                                       *)
(***************************************************************************)
EXTENDS Integers, Sequences, FiniteSets, TLC

(***************************************************************************)
(* JavaScript values                                                       *)
(***************************************************************************)
null == "<null>"
NaN == <<>>
undefined == <<>>
Num(n) == <<n>>

\* JS truthiness of a string-or-null and of a number-or-undefined
Truthy(s) == s # null /\ s # ""
TruthyNum(n) == n # undefined /\ n[1] # 0
\* String(v)
String(v) == IF v = null THEN "null" ELSE v
\* a || b on strings
OrElse(a, b) == IF Truthy(a) THEN a ELSE b

(***************************************************************************)
(* String primitives                                                       *)
(***************************************************************************)
UpperAlphabet == "ABCDEFGHIJKLMNOPQRSTUVWXYZ"
LowerAlphabet == "abcdefghijklmnopqrstuvwxyz"
Digits == "0123456789"

CharAt(s, i) == SubSeq(s, i, i)
CharsOf(alphabet) == {CharAt(alphabet, i) : i \in 1..Len(alphabet)}
IndexIn(alphabet, c) == CHOOSE i \in 1..Len(alphabet) : CharAt(alphabet, i) = c

UpperChars == CharsOf(UpperAlphabet)
LowerChars == CharsOf(LowerAlphabet)
DigitChars == CharsOf(Digits)
WordChars == UpperChars \cup LowerChars \cup DigitChars \cup {"_"}
toLowerTable == [c \in UpperChars |-> CharAt(LowerAlphabet, IndexIn(UpperAlphabet, c))]
toUpperTable == [c \in LowerChars |-> CharAt(UpperAlphabet, IndexIn(LowerAlphabet, c))]
digitValue == [c \in DigitChars |-> IndexIn(Digits, c) - 1]

IsDigit(c) == c \in DigitChars
IsUpper(c) == c \in UpperChars
IsLower(c) == c \in LowerChars
\* \w and \s of JavaScript regular expressions (ASCII)
IsWordChar(c) == c \in WordChars
IsSpace(c) == c \in {" ", "\t", "\n", "\r", "\f"}

lowerChar(c) == IF IsUpper(c) THEN toLowerTable[c] ELSE c
upperChar(c) == IF IsLower(c) THEN toUpperTable[c] ELSE c

\* Character-wise maps split the string in halves, which keeps the
\* evaluation depth logarithmic in its length.
RECURSIVE toLowerCase(_)
toLowerCase(s) ==
  IF Len(s) = 0 THEN ""
  ELSE IF Len(s) = 1 THEN lowerChar(s)
  ELSE toLowerCase(SubSeq(s, 1, Len(s) \div 2)) \o toLowerCase(SubSeq(s, Len(s) \div 2 + 1, Len(s)))

RECURSIVE toUpperCase(_)
toUpperCase(s) ==
  IF Len(s) = 0 THEN ""
  ELSE IF Len(s) = 1 THEN upperChar(s)
  ELSE toUpperCase(SubSeq(s, 1, Len(s) \div 2)) \o toUpperCase(SubSeq(s, Len(s) \div 2 + 1, Len(s)))

\* s.includes(p), s.endsWith(p)
Includes(s, p) == \E i \in 1..(Len(s) - Len(p) + 1) : SubSeq(s, i, i + Len(p) - 1) = p
EndsWith(s, p) == Len(p) <= Len(s) /\ SubSeq(s, Len(s) - Len(p) + 1, Len(s)) = p

\* s.trim()
RECURSIVE trimStart(_)
trimStart(s) ==
  IF Len(s) > 0 /\ IsSpace(CharAt(s, 1)) THEN trimStart(SubSeq(s, 2, Len(s))) ELSE s
RECURSIVE trimEnd(_)
trimEnd(s) ==
  IF Len(s) > 0 /\ IsSpace(CharAt(s, Len(s))) THEN trimEnd(SubSeq(s, 1, Len(s) - 1)) ELSE s
trim(s) == trimEnd(trimStart(s))

\* s.replace(/c/g, r) for a one-character pattern c
RECURSIVE replaceAll(_, _, _)
replaceAll(s, c, r) ==
  IF Len(s) = 0 THEN ""
  ELSE IF Len(s) = 1 THEN (IF s = c THEN r ELSE s)
  ELSE replaceAll(SubSeq(s, 1, Len(s) \div 2), c, r)
         \o replaceAll(SubSeq(s, Len(s) \div 2 + 1, Len(s)), c, r)

\* s.replace(/suffix$/, '')
stripSuffix(s, suffix) == IF EndsWith(s, suffix) THEN SubSeq(s, 1, Len(s) - Len(suffix)) ELSE s

\* parts.join(' ')
RECURSIVE join(_)
join(parts) ==
  IF Len(parts) = 0 THEN ""
  ELSE IF Len(parts) = 1 THEN parts[1]
  ELSE parts[1] \o " " \o join(Tail(parts))

\* the number of leading digits of s from position i
RECURSIVE digitRun(_, _)
digitRun(s, i) == IF i <= Len(s) /\ IsDigit(CharAt(s, i)) THEN 1 + digitRun(s, i + 1) ELSE 0

RECURSIVE decimal(_)
decimal(s) ==
  IF Len(s) = 0 THEN 0
  ELSE 10 * decimal(SubSeq(s, 1, Len(s) - 1)) + digitValue[CharAt(s, Len(s))]

\* parseInt(v, 10): leading white space, an optional sign, then the longest
\* run of digits; NaN when there is none (and for null)
parseInt(v) ==
  IF v = null THEN NaN
  ELSE LET t == trimStart(v)
           neg == Len(t) > 0 /\ CharAt(t, 1) = "-"
           sgn == Len(t) > 0 /\ CharAt(t, 1) \in {"-", "+"}
           from == IF sgn THEN 2 ELSE 1
           n == digitRun(t, from)
       IN IF n = 0 THEN NaN
          ELSE Num((IF neg THEN -1 ELSE 1) * decimal(SubSeq(t, from, from + n - 1)))

(***************************************************************************)
(* Regular expressions.  A pattern is a sequence of items; MatchFrom is    *)
(* the backtracking match of items k.. at position i of s.  Patterns with  *)
(* the i flag are run on the upper-cased text with upper-case literals.    *)
(***************************************************************************)
Lit(v) == [t |-> "lit", v |-> v]
WordB == [t |-> "b", v |-> ""]
Sp == [t |-> "s+", v |-> ""]
Ss == [t |-> "s*", v |-> ""]
DashSp == [t |-> "[-s]+", v |-> ""]
Digit == [t |-> "d", v |-> ""]

IsWordAt(s, j) == j >= 1 /\ j <= Len(s) /\ IsWordChar(CharAt(s, j))
\* \b between the characters at i-1 and i
AtBoundary(s, i) == IsWordAt(s, i - 1) # IsWordAt(s, i)

RECURSIVE spaceRun(_, _)
spaceRun(s, i) == IF i <= Len(s) /\ IsSpace(CharAt(s, i)) THEN 1 + spaceRun(s, i + 1) ELSE 0
RECURSIVE dashSpaceRun(_, _)
dashSpaceRun(s, i) ==
  IF i <= Len(s) /\ (IsSpace(CharAt(s, i)) \/ CharAt(s, i) = "-")
    THEN 1 + dashSpaceRun(s, i + 1) ELSE 0

RECURSIVE MatchFrom(_, _, _, _)
MatchFrom(s, i, pat, k) ==
  IF k > Len(pat) THEN TRUE
  ELSE LET it == pat[k] IN
    CASE it.t = "lit" -> /\ i + Len(it.v) - 1 <= Len(s)
                         /\ SubSeq(s, i, i + Len(it.v) - 1) = it.v
                         /\ MatchFrom(s, i + Len(it.v), pat, k + 1)
      [] it.t = "b" -> AtBoundary(s, i) /\ MatchFrom(s, i, pat, k + 1)
      [] it.t = "s+" -> \E n \in 1..spaceRun(s, i) : MatchFrom(s, i + n, pat, k + 1)
      [] it.t = "s*" -> \E n \in 0..spaceRun(s, i) : MatchFrom(s, i + n, pat, k + 1)
      [] it.t = "[-s]+" -> \E n \in 1..dashSpaceRun(s, i) : MatchFrom(s, i + n, pat, k + 1)
      [] it.t = "d" -> /\ i <= Len(s)
                       /\ IsDigit(CharAt(s, i))
                       /\ MatchFrom(s, i + 1, pat, k + 1)

\* pattern.test(s) for a pattern with the i flag, given u = s in upper case
testUpper(pat, u) == \E i \in 1..(Len(u) + 1) : MatchFrom(u, i, pat, 1)

Min(S) == CHOOSE x \in S : \A y \in S : x <= y

\* s.match(/\b(19[89]\d|20[0-2]\d)\b/): the captured year or null
yearAt(s, i) ==
  /\ i + 3 <= Len(s)
  /\ AtBoundary(s, i)
  /\ \/ SubSeq(s, i, i + 1) = "19" /\ CharAt(s, i + 2) \in {"8", "9"}
     \/ SubSeq(s, i, i + 1) = "20" /\ CharAt(s, i + 2) \in {"0", "1", "2"}
  /\ IsDigit(CharAt(s, i + 3))
  /\ AtBoundary(s, i + 4)
matchYear(s) ==
  LET at == {i \in 1..Len(s) : yearAt(s, i)}
  IN IF at = {} THEN null ELSE SubSeq(s, Min(at), Min(at) + 3)

\* s.match(/#(\d{1,4})\b/): the captured card number or null.  One to four
\* digits after '#', followed by a word boundary: a run of five or more
\* digits, or a run followed by a letter or underscore, does not match.
cardNumberAt(s, i) ==
  /\ CharAt(s, i) = "#"
  /\ digitRun(s, i + 1) \in 1..4
  /\ AtBoundary(s, i + 1 + digitRun(s, i + 1))
matchCardNumber(s) ==
  LET at == {i \in 1..Len(s) : cardNumberAt(s, i)}
  IN IF at = {} THEN null
     ELSE SubSeq(s, Min(at) + 1, Min(at) + digitRun(s, Min(at) + 1))

\* s.match(/\[([^\]]+)\]/): the text between the leftmost '[' that has at
\* least one character before the next ']', and that ']'; or null
closeAfter(s, i) == {j \in (i + 1)..Len(s) : CharAt(s, j) = "]"}
bracketAt(s, i) ==
  /\ CharAt(s, i) = "["
  /\ closeAfter(s, i) # {}
  /\ Min(closeAfter(s, i)) >= i + 2
matchBracket(s) ==
  LET at == {i \in 1..Len(s) : bracketAt(s, i)}
  IN IF at = {} THEN null
     ELSE SubSeq(s, Min(at) + 1, Min(closeAfter(s, Min(at))) - 1)

\* the first element of a list that the text includes, or null
RECURSIVE firstIncluded(_, _)
firstIncluded(list, text) ==
  IF Len(list) = 0 THEN null
  ELSE IF Includes(text, Head(list)) THEN Head(list)
  ELSE firstIncluded(Tail(list), text)

RECURSIVE firstSetPattern_lastWins(_, _)
firstSetPattern_lastWins(patterns, upperText) ==
  IF Len(patterns) = 0 THEN null
  ELSE LET later == firstSetPattern_lastWins(Tail(patterns), upperText)
       IN IF later # null THEN later
          ELSE IF testUpper(Head(patterns).pattern, upperText) THEN Head(patterns).name
          ELSE null

\* the name of the first set pattern that matches; upperText is the text
\* in upper case
RECURSIVE firstSetPattern(_, _)
firstSetPattern(patterns, upperText) ==
  IF Len(patterns) = 0 THEN null
  ELSE IF testUpper(Head(patterns).pattern, upperText) THEN Head(patterns).name
  ELSE firstSetPattern(Tail(patterns), upperText)

(***************************************************************************)
(* SportsCardProClient.parseSCPProduct and parseTitle                      *)
(***************************************************************************)
insertPatterns ==
  << "t minus 3 2 1", "t-minus 3 2 1", "t-minus 3, 2, 1",
     "star gazing", "lights out", "express lane", "winner stays", "my house",
     "fantasy stars", "zero gravity", "game 7", "instant impact", "elite dominators",
     "global reach",
     "splash", "rainmakers", "all-stars", "all stars", "slam", "courtside", "skyview",
     "hoopla", "ignition", "superstars", "emergent", "sensational", "supernova", "vortex" >>

\* insert.replace(/-/g, ' ').replace(/,/g, '')
normalizeInsert(insert) ==
  IF insert = null THEN null ELSE replaceAll(replaceAll(insert, "-", " "), ",", "")

SetPat(pattern, name) == [pattern |-> pattern, name |-> name]

scpSetPatterns ==
  << SetPat(<<Lit("PRIZM"), Sp, Lit("GLOBAL"), Sp, Lit("REACH")>>, "prizm global reach"),
     SetPat(<<Lit("PRIZM"), Sp, Lit("DRAFT"), Sp, Lit("PICKS")>>, "prizm draft picks"),
     SetPat(<<Lit("HOOPS"), Ss, Lit("PREMIUM"), Ss, Lit("STOCK")>>, "hoops premium stock"),
     SetPat(<<Lit("TOPPS"), Ss, Lit("CHROME")>>, "topps chrome"),
     SetPat(<<Lit("BOWMAN"), Ss, Lit("CHROME")>>, "bowman chrome"),
     SetPat(<<WordB, Lit("PRIZM"), WordB>>, "prizm"),
     SetPat(<<WordB, Lit("OPTIC"), WordB>>, "optic"),
     SetPat(<<WordB, Lit("SELECT"), WordB>>, "select"),
     SetPat(<<WordB, Lit("MOSAIC"), WordB>>, "mosaic"),
     SetPat(<<WordB, Lit("HOOPS"), WordB>>, "hoops"),
     SetPat(<<WordB, Lit("DONRUSS"), WordB>>, "donruss"),
     SetPat(<<WordB, Lit("CONTENDERS"), WordB>>, "contenders"),
     SetPat(<<WordB, Lit("BOWMAN"), WordB>>, "bowman"),
     SetPat(<<WordB, Lit("TOPPS"), WordB>>, "topps") >>

\* the autograph test of both parsers, on lower-cased text
hasAutoToken(lower) ==
  Includes(lower, "auto") \/ Includes(lower, "autograph") \/ Includes(lower, "signed")

parseSCPProduct(consoleName, productName) ==
  LET bracket == matchBracket(productName)
  IN [ year |-> matchYear(consoleName),
       set |-> firstSetPattern(scpSetPatterns, toUpperCase(consoleName)),
       insertSet |-> normalizeInsert(firstIncluded(insertPatterns, toLowerCase(consoleName))),
       cardNumber |-> matchCardNumber(productName),
       parallel |-> IF bracket = null THEN null ELSE trim(toLowerCase(bracket)),
       isAuto |-> hasAutoToken(toLowerCase(consoleName \o " " \o productName)) ]

titleSetPatterns ==
  << SetPat(<<Lit("PRIZM"), Sp, Lit("GLOBAL"), Sp, Lit("REACH")>>, "Prizm Global Reach"),
     SetPat(<<Lit("PRIZM"), Sp, Lit("DRAFT"), Sp, Lit("PICKS")>>, "Prizm Draft Picks"),
     SetPat(<<Lit("PRIZM"), Sp, Lit("INSTANT"), Sp, Lit("IMPACT")>>, "Prizm Instant Impact"),
     SetPat(<<Lit("PRIZM"), Sp, Lit("EMERGENT")>>, "Prizm Emergent"),
     SetPat(<<Lit("PRIZM"), Sp, Lit("SENSATIONAL")>>, "Prizm Sensational"),
     SetPat(<<Lit("HOOPS"), Ss, Lit("PREMIUM"), Ss, Lit("STOCK")>>, "Hoops Premium Stock"),
     SetPat(<<Lit("TOPPS"), Ss, Lit("CHROME")>>, "Topps Chrome"),
     SetPat(<<Lit("BOWMAN"), Ss, Lit("CHROME")>>, "Bowman Chrome"),
     SetPat(<<Lit("UPPER"), Ss, Lit("DECK")>>, "Upper Deck"),
     SetPat(<<WordB, Lit("20"), Digit, Digit, DashSp, Lit("PRIZM"), WordB>>, "Prizm"),
     SetPat(<<WordB, Lit("20"), Digit, Digit, DashSp, Lit("OPTIC"), WordB>>, "Optic"),
     SetPat(<<WordB, Lit("20"), Digit, Digit, DashSp, Lit("SELECT"), WordB>>, "Select"),
     SetPat(<<WordB, Lit("20"), Digit, Digit, DashSp, Lit("MOSAIC"), WordB>>, "Mosaic"),
     SetPat(<<Lit("PANINI"), Sp, Lit("PRIZM"), WordB>>, "Prizm"),
     SetPat(<<Lit("PANINI"), Sp, Lit("OPTIC")>>, "Optic"),
     SetPat(<<Lit("DONRUSS"), Sp, Lit("OPTIC")>>, "Optic"),
     SetPat(<<Lit("PANINI"), Sp, Lit("SELECT")>>, "Select"),
     SetPat(<<Lit("PANINI"), Sp, Lit("MOSAIC")>>, "Mosaic"),
     SetPat(<<Lit("PANINI"), Sp, Lit("CONTENDERS")>>, "Contenders"),
     SetPat(<<WordB, Lit("HOOPS"), WordB>>, "Hoops"),
     SetPat(<<WordB, Lit("DONRUSS"), WordB>>, "Donruss"),
     SetPat(<<WordB, Lit("BOWMAN"), WordB>>, "Bowman"),
     SetPat(<<WordB, Lit("FLEER"), WordB>>, "Fleer"),
     SetPat(<<WordB, Lit("REVOLUTION"), WordB>>, "Revolution") >>

playerPatterns ==
  << "lebron james", "victor wembanyama", "luka doncic", "anthony edwards",
     "stephen curry", "shohei ohtani", "mike trout", "julio rodriguez",
     "gunnar henderson", "juan soto" >>

\* title.match(/name/i)[0] for the first pattern that matches: the text of
\* the title at the leftmost match, in the title's own case
matchedText(title, name) ==
  LET lower == toLowerCase(title)
      at == {i \in 1..(Len(title) - Len(name) + 1) : SubSeq(lower, i, i + Len(name) - 1) = name}
  IN SubSeq(title, Min(at), Min(at) + Len(name) - 1)
matchPlayer(title) ==
  LET name == firstIncluded(playerPatterns, toLowerCase(title))
  IN IF name = null THEN null ELSE matchedText(title, name)

\* The fields of parseTitle that getMarketValue reads (its cardNumber and
\* parallel results are not read by any caller in this revision).
parseTitle(title) ==
  [ year |-> matchYear(title),
    set |-> firstSetPattern(titleSetPatterns, toUpperCase(title)),
    player |-> matchPlayer(title),
    isAuto |-> hasAutoToken(toLowerCase(title)),
    insertSet |-> normalizeInsert(firstIncluded(insertPatterns, toLowerCase(title))) ]

\* listing titles; the worker passes the title as `player'
titles ==
  [ pulsar |-> "2019 Panini Hoops Premium Stock LeBron James [Purple Pulsar] #87 PSA 10",
    auto |-> "2019 Panini Hoops Premium Stock LeBron James Auto [Purple Pulsar] #87 PSA 10",
    splash |-> "2019 Panini Hoops Premium Stock Splash LeBron James [Purple Pulsar] #87 PSA 10",
    short |-> "LeBron James" ]

(***************************************************************************)
(* EbayClient.parseCardDetails (src/src/services/ebay.js)                  *)
(***************************************************************************)
\* title.match(/\b(19|20)\d{2}\b/), through parseInt
titleYearAt(s, i) ==
  /\ i + 3 <= Len(s)
  /\ AtBoundary(s, i)
  /\ SubSeq(s, i, i + 1) \in {"19", "20"}
  /\ IsDigit(CharAt(s, i + 2))
  /\ IsDigit(CharAt(s, i + 3))
  /\ AtBoundary(s, i + 4)
titleYear(s) ==
  LET at == {i \in 1..Len(s) : titleYearAt(s, i)}
  IN IF at = {} THEN null ELSE SubSeq(s, Min(at), Min(at) + 3)

\* the length of the run of digits (and of dots, for [\d.]+) from position i
RECURSIVE gradeRun(_, _, _)
gradeRun(s, i, dotted) ==
  IF i <= Len(s) /\ (IsDigit(CharAt(s, i)) \/ (dotted /\ CharAt(s, i) = "."))
    THEN 1 + gradeRun(s, i + 1, dotted) ELSE 0

\* /PSA\s*(\d+)/i, /BGS\s*([\d.]+)/i, /SGC\s*(\d+)/i, /CGC\s*([\d.]+)/i
gradePatterns ==
  << [grader |-> "PSA", dotted |-> FALSE], [grader |-> "BGS", dotted |-> TRUE],
     [grader |-> "SGC", dotted |-> FALSE], [grader |-> "CGC", dotted |-> TRUE] >>

gradeAt(u, i, g) ==
  /\ i + 2 <= Len(u)
  /\ SubSeq(u, i, i + 2) = g.grader
  /\ gradeRun(u, i + 3 + spaceRun(u, i + 3), g.dotted) > 0

\* the loop over gradePatterns: grader and grade of the first pattern that
\* matches, 'Raw' and no grader when none does
RECURSIVE titleGrade(_, _)
titleGrade(title, patterns) ==
  IF Len(patterns) = 0 THEN [grader |-> null, grade |-> "Raw"]
  ELSE LET g == Head(patterns)
           u == toUpperCase(title)
           at == {i \in 1..Len(u) : gradeAt(u, i, g)}
           from == Min(at) + 3 + spaceRun(u, Min(at) + 3)
       IN IF at = {} THEN titleGrade(title, Tail(patterns))
          ELSE [ grader |-> g.grader,
                 grade |-> g.grader \o " "
                             \o SubSeq(title, from, from + gradeRun(title, from, g.dotted) - 1) ]

basketballKeywords == <<"PRIZM", "OPTIC", "SELECT", "MOSAIC", "HOOPS", "NBA", "BASKETBALL">>
baseballKeywords == <<"TOPPS", "BOWMAN", "CHROME", "MLB", "BASEBALL", "SAPPHIRE">>

titleSport(titleUpper) ==
  IF firstIncluded(basketballKeywords, titleUpper) # null THEN "basketball"
  ELSE IF firstIncluded(baseballKeywords, titleUpper) # null THEN "baseball"
  ELSE null

\* (\d{1,4})\b at position j: one to four digits with a word boundary behind
\* them, or nothing
shortNumberAt(s, j) == digitRun(s, j) \in 1..4 /\ AtBoundary(s, j + digitRun(s, j))

\* the start of the captured digits when cardNumPatterns[k] matches at i, else 0
cardNumStart(s, u, i, k) ==
  CASE k = 1 -> \* /#\s*(\d{1,4})\b/
         IF CharAt(s, i) = "#" /\ shortNumberAt(s, i + 1 + spaceRun(s, i + 1))
           THEN i + 1 + spaceRun(s, i + 1) ELSE 0
    [] k = 2 -> \* /\bNo\.?\s*(\d{1,4})\b/i
         LET j == IF i + 2 <= Len(s) /\ CharAt(s, i + 2) = "." THEN i + 3 ELSE i + 2
         IN IF /\ i + 1 <= Len(s)
               /\ AtBoundary(s, i)
               /\ SubSeq(u, i, i + 1) = "NO"
               /\ shortNumberAt(s, j + spaceRun(s, j))
              THEN j + spaceRun(s, j) ELSE 0
    [] k = 3 -> \* /\bCard\s*#?(\d{1,4})\b/i
         LET j == i + 4 + spaceRun(s, i + 4)
             h == IF j <= Len(s) /\ CharAt(s, j) = "#" THEN j + 1 ELSE j
         IN IF /\ i + 3 <= Len(s)
               /\ AtBoundary(s, i)
               /\ SubSeq(u, i, i + 3) = "CARD"
               /\ shortNumberAt(s, h)
              THEN h ELSE 0
    [] k = 4 -> \* /\s(\d{1,4})\/\d+\b/
         LET n == digitRun(s, i + 1)
             m == digitRun(s, i + n + 2)
         IN IF /\ IsSpace(CharAt(s, i))
               /\ n \in 1..4
               /\ i + n + 1 <= Len(s)
               /\ CharAt(s, i + n + 1) = "/"
               /\ m > 0
               /\ AtBoundary(s, i + n + 2 + m)
              THEN i + 1 ELSE 0

\* the loop over cardNumPatterns from pattern k on
RECURSIVE titleCardNumber(_, _)
titleCardNumber(title, k) ==
  IF k > 4 THEN null
  ELSE LET u == toUpperCase(title)
           at == {i \in 1..Len(title) : cardNumStart(title, u, i, k) > 0}
           from == cardNumStart(title, u, Min(at), k)
       IN IF at = {} THEN titleCardNumber(title, k + 1)
          ELSE SubSeq(title, from, from + digitRun(title, from) - 1)

parallels ==
  << "RED/WHITE/BLUE", "RED WHITE BLUE", "RED, WHITE, BLUE",
     "BLUE VELOCITY", "RED VELOCITY", "GREEN VELOCITY", "ORANGE VELOCITY", "PURPLE VELOCITY",
     "BLUE PULSAR", "GREEN PULSAR", "RED PULSAR", "ORANGE PULSAR", "PURPLE PULSAR",
     "PINK ICE", "RED ICE", "BLUE ICE", "GREEN ICE", "PURPLE ICE",
     "FAST BREAK", "BLACK GOLD", "BLUE SHIMMER", "GOLD SHIMMER", "RED SHIMMER",
     "BLUE WAVE", "RED WAVE", "GOLD WAVE", "HYPER BLUE", "HYPER PINK", "HYPER RED",
     "NEON GREEN", "NEON ORANGE", "NEON PINK", "TIGER CAMO",
     "SILVER", "GOLD", "BLUE", "RED", "GREEN", "ORANGE", "PURPLE", "BLACK", "PINK", "WHITE",
     "SHIMMER", "HOLO", "REFRACTOR", "MOJO", "SCOPE", "WAVE", "PULSAR", "HYPER",
     "DISCO", "TIGER", "CAMO", "ICE", "NEON", "LASER", "VELOCITY", "PRIZM" >>

titleParallel(titleUpper) ==
  LET parallel == firstIncluded(parallels, titleUpper)
  IN IF parallel = null THEN null
     ELSE IF Includes(parallel, "RED") /\ Includes(parallel, "WHITE") /\ Includes(parallel, "BLUE")
       THEN "red white blue"
     ELSE toLowerCase(parallel)

setPatterns ==
  << SetPat(<<Lit("PRIZM"), Sp, Lit("GLOBAL"), Sp, Lit("REACH")>>, "Prizm Global Reach"),
     SetPat(<<Lit("PRIZM"), Sp, Lit("DRAFT"), Sp, Lit("PICKS")>>, "Prizm Draft Picks"),
     SetPat(<<Lit("PRIZM"), Sp, Lit("INSTANT"), Sp, Lit("IMPACT")>>, "Prizm Instant Impact"),
     SetPat(<<Lit("PRIZM"), Sp, Lit("EMERGENT")>>, "Prizm Emergent"),
     SetPat(<<Lit("PRIZM"), Sp, Lit("SENSATIONAL")>>, "Prizm Sensational"),
     SetPat(<<Lit("HOOPS"), Ss, Lit("PREMIUM"), Ss, Lit("STOCK")>>, "Hoops Premium Stock"),
     SetPat(<<Lit("TOPPS"), Ss, Lit("CHROME")>>, "Topps Chrome"),
     SetPat(<<Lit("BOWMAN"), Ss, Lit("CHROME")>>, "Bowman Chrome"),
     SetPat(<<Lit("STADIUM"), Ss, Lit("CLUB")>>, "Stadium Club"),
     SetPat(<<WordB, Lit("20"), Digit, Digit, DashSp, Lit("PRIZM"), WordB>>, "Prizm"),
     SetPat(<<WordB, Lit("20"), Digit, Digit, DashSp, Lit("OPTIC"), WordB>>, "Optic"),
     SetPat(<<WordB, Lit("20"), Digit, Digit, DashSp, Lit("SELECT"), WordB>>, "Select"),
     SetPat(<<WordB, Lit("20"), Digit, Digit, DashSp, Lit("MOSAIC"), WordB>>, "Mosaic"),
     SetPat(<<Lit("PANINI"), Sp, Lit("PRIZM"), WordB>>, "Prizm"),
     SetPat(<<Lit("PANINI"), Sp, Lit("OPTIC")>>, "Optic"),
     SetPat(<<Lit("DONRUSS"), Sp, Lit("OPTIC")>>, "Optic"),
     SetPat(<<Lit("PANINI"), Sp, Lit("SELECT")>>, "Select"),
     SetPat(<<Lit("PANINI"), Sp, Lit("MOSAIC")>>, "Mosaic"),
     SetPat(<<Lit("PANINI"), Sp, Lit("CONTENDERS")>>, "Contenders"),
     SetPat(<<Lit("PANINI"), Sp, Lit("CHRONICLES")>>, "Chronicles"),
     SetPat(<<WordB, Lit("HOOPS"), WordB>>, "Hoops"),
     SetPat(<<WordB, Lit("DONRUSS"), WordB>>, "Donruss"),
     SetPat(<<WordB, Lit("BOWMAN"), WordB>>, "Bowman") >>

parseCardDetails(title) ==
  IF ~Truthy(title)
    THEN [ year |-> null, playerName |-> null, setName |-> null, cardNumber |-> null,
           grade |-> "Raw", grader |-> null, parallel |-> null, sport |-> null ]
    ELSE [ year |-> titleYear(title),
           playerName |-> null,
           setName |-> firstSetPattern(setPatterns, toUpperCase(title)),
           cardNumber |-> titleCardNumber(title, 1),
           grade |-> titleGrade(title, gradePatterns).grade,
           grader |-> titleGrade(title, gradePatterns).grader,
           parallel |-> titleParallel(toUpperCase(title)),
           sport |-> titleSport(toUpperCase(title)) ]

(***************************************************************************)
(* CardSetsService (card-sets.js): the parallels of the catalog data, in   *)
(* the order in which buildIndexes adds them, and detectParallel           *)
(***************************************************************************)
allParallels ==
  << "blue", "silver", "gold", "blue velocity", "silver prizm", "red/white/blue",
     "red white blue", "hyper blue", "black gold", "gold shimmer", "shimmer",
     "purple pulsar", "pulsar", "prizm", "hyper", "fast break purple", "purple" >>

isCompound(p) == Includes(p, " ") \/ Includes(p, "-") \/ Includes(p, "/")
isSimple(p) == ~isCompound(p)

\* Array.prototype.sort((a, b) => b.length - a.length): longer first, equal
\* lengths in their former order
RECURSIVE insertLongerFirst(_, _)
insertLongerFirst(sorted, p) ==
  IF Len(sorted) = 0 THEN <<p>>
  ELSE IF Len(Head(sorted)) >= Len(p)
    THEN <<Head(sorted)>> \o insertLongerFirst(Tail(sorted), p)
  ELSE <<p>> \o sorted

RECURSIVE sortLongerFirst_shorterFirst(_)
sortLongerFirst_shorterFirst(list) ==
  IF Len(list) = 0 THEN <<>>
  ELSE LET rest == sortLongerFirst_shorterFirst(SubSeq(list, 1, Len(list) - 1))
           p == list[Len(list)]
           before == SelectSeq(rest, LAMBDA q : Len(q) <= Len(p))
           after == SelectSeq(rest, LAMBDA q : Len(q) > Len(p))
       IN before \o <<p>> \o after

RECURSIVE sortLongerFirst(_)
sortLongerFirst(list) ==
  IF Len(list) = 0 THEN <<>>
  ELSE insertLongerFirst(sortLongerFirst(SubSeq(list, 1, Len(list) - 1)), list[Len(list)])

compoundParallels == sortLongerFirst(SelectSeq(allParallels, isCompound))
simpleParallels == sortLongerFirst(SelectSeq(allParallels, isSimple))

\* card-sets.js 184-199
cardSetsNormalizeParallel(parallel) ==
  IF ~Truthy(parallel) THEN null
  ELSE LET p == trim(toLowerCase(parallel))
       IN IF Includes(p, "red") /\ Includes(p, "white") /\ Includes(p, "blue")
            THEN "red white blue"
          ELSE stripSuffix(stripSuffix(stripSuffix(p, " prizm"), " refractor"), " holo")

\* /\b(SILVER|GOLD|...|WHITE)\s+PRIZM\b/i
hasPrizmParallel(title) ==
  \E colour \in {"SILVER", "GOLD", "BLUE", "RED", "GREEN", "ORANGE", "PURPLE", "PINK",
                 "BLACK", "WHITE"} :
    testUpper(<<WordB, Lit(colour), Sp, Lit("PRIZM"), WordB>>, toUpperCase(title))

\* the simple parallels that the second loop does not skip
RECURSIVE firstSimple(_, _)
firstSimple(list, title) ==
  IF Len(list) = 0 THEN null
  ELSE IF ~(Head(list) = "prizm" /\ ~hasPrizmParallel(title))
            /\ Includes(toLowerCase(title), Head(list))
    THEN Head(list)
  ELSE firstSimple(Tail(list), title)

detectParallel(title) ==
  IF ~Truthy(title) THEN null
  ELSE LET compound == firstIncluded(compoundParallels, toLowerCase(title))
       IN IF compound # null THEN cardSetsNormalizeParallel(compound)
          ELSE cardSetsNormalizeParallel(firstSimple(simpleParallels, title))

(***************************************************************************)
(* EbayClient.extractAspects, extractCertFromTitle, getBetterParallel and  *)
(* transformListings                                                       *)
(***************************************************************************)
\* the run of characters of [#:\s] from position i
RECURSIVE certSeparatorRun(_, _)
certSeparatorRun(s, i) ==
  IF i <= Len(s) /\ (IsSpace(CharAt(s, i)) \/ CharAt(s, i) \in {"#", ":"})
    THEN 1 + certSeparatorRun(s, i + 1) ELSE 0
\* the run of characters of [^0-9] from position i
RECURSIVE nonDigitRun(_, _)
nonDigitRun(s, i) ==
  IF i <= Len(s) /\ ~IsDigit(CharAt(s, i)) THEN 1 + nonDigitRun(s, i + 1) ELSE 0

\* the start of the captured digits when patterns[k] of extractCertFromTitle
\* matches at i, else 0
certStart(s, u, i, k) ==
  CASE k = 1 -> \* /cert[#:\s]*(\d{7,10})/i
         IF /\ i + 3 <= Len(s)
            /\ SubSeq(u, i, i + 3) = "CERT"
            /\ digitRun(s, i + 4 + certSeparatorRun(s, i + 4)) >= 7
           THEN i + 4 + certSeparatorRun(s, i + 4) ELSE 0
    [] k = 2 -> \* /psa[^0-9]*(\d{7,10})/i
         IF /\ i + 2 <= Len(s)
            /\ SubSeq(u, i, i + 2) = "PSA"
            /\ digitRun(s, i + 3 + nonDigitRun(s, i + 3)) >= 7
           THEN i + 3 + nonDigitRun(s, i + 3) ELSE 0
    [] k = 3 -> \* /#(\d{8,10})\b/
         IF /\ CharAt(s, i) = "#"
            /\ digitRun(s, i + 1) \in 8..10
            /\ AtBoundary(s, i + 1 + digitRun(s, i + 1))
           THEN i + 1 ELSE 0

RECURSIVE certFromTitle(_, _)
certFromTitle(title, k) ==
  IF k > 3 THEN null
  ELSE LET u == toUpperCase(title)
           at == {i \in 1..Len(title) : certStart(title, u, i, k) > 0}
           from == certStart(title, u, Min(at), k)
       IN IF at = {} THEN certFromTitle(title, k + 1)
          ELSE SubSeq(title, from, from + Min({10, digitRun(title, from)}) - 1)

extractCertFromTitle(title) == IF ~Truthy(title) THEN null ELSE certFromTitle(title, 1)

\* value.match(/\d{7,10}/)
matchCertDigits(value) ==
  LET at == {i \in 1..Len(value) : digitRun(value, i) >= 7}
  IN IF at = {} THEN null
     ELSE SubSeq(value, Min(at), Min(at) + Min({10, digitRun(value, Min(at))}) - 1)

Aspect(name, value) == [name |-> name, value |-> value]

\* one turn of the loop of extractAspects
applyAspect(result, aspect) ==
  LET name == toLowerCase(OrElse(aspect.name, ""))
      value == OrElse(aspect.value, "")
  IN IF name \in {"year", "season", "year manufactured"}
       THEN [result EXCEPT !.year = IF matchYear(value) # null THEN matchYear(value) ELSE @]
     ELSE IF name \in {"set", "series", "product"} THEN [result EXCEPT !.setName = value]
     ELSE IF name \in {"card number", "card #"}
       THEN [result EXCEPT !.cardNumber =
               trim(IF Len(value) > 0 /\ CharAt(value, 1) = "#"
                      THEN SubSeq(value, 2, Len(value)) ELSE value)]
     ELSE IF name \in {"parallel/variety", "parallel", "variation", "insert"}
       THEN [result EXCEPT !.parallel = toLowerCase(value)]
     ELSE IF name \in {"player", "athlete", "player/athlete"}
       THEN [result EXCEPT !.playerName = value]
     ELSE IF name \in {"professional grader", "grader", "grading company"}
       THEN [result EXCEPT !.grader = toUpperCase(value)]
     ELSE IF name = "grade" THEN [result EXCEPT !.grade = value]
     ELSE IF name \in {"certification number", "cert number", "psa certification number",
                       "certification", "psa #", "psa number",
                       "grading certification number", "cert #"}
       THEN [result EXCEPT !.certNumber =
               IF matchCertDigits(value) # null THEN matchCertDigits(value) ELSE @]
     ELSE IF name = "sport" THEN [result EXCEPT !.sport = toLowerCase(value)]
     ELSE IF name \in {"autograph", "autographed"}
       THEN [result EXCEPT !.isAuto = toLowerCase(value) \in {"yes", "true"}]
     ELSE IF name = "features"
       THEN [result EXCEPT !.isAuto = IF Includes(toLowerCase(value), "auto") THEN TRUE ELSE @]
     ELSE result

RECURSIVE extractAspectsFrom(_, _)
extractAspectsFrom(result, localizedAspects) ==
  IF Len(localizedAspects) = 0 THEN result
  ELSE extractAspectsFrom(applyAspect(result, Head(localizedAspects)), Tail(localizedAspects))

extractAspects(localizedAspects) ==
  extractAspectsFrom(
    [ year |-> null, setName |-> null, cardNumber |-> null, parallel |-> null,
      playerName |-> null, grader |-> null, grade |-> null, certNumber |-> null,
      sport |-> null, isAuto |-> FALSE ],
    localizedAspects)

\* the title's parallel is dropped whenever the seller gave one
getBetterParallel_aspectsFirst(aspectsParallel, titleParallel_) ==
  IF Truthy(aspectsParallel) THEN aspectsParallel
  ELSE IF Truthy(titleParallel_) THEN titleParallel_
  ELSE null

getBetterParallel(aspectsParallel, titleParallel_) ==
  IF ~Truthy(aspectsParallel) /\ ~Truthy(titleParallel_) THEN null
  ELSE IF ~Truthy(aspectsParallel) THEN titleParallel_
  ELSE IF ~Truthy(titleParallel_) THEN aspectsParallel
  ELSE LET aspectsLower == toLowerCase(aspectsParallel)
           titleLower == toLowerCase(titleParallel_)
       IN IF Includes(titleLower, aspectsLower) /\ Len(titleLower) > Len(aspectsLower)
            THEN titleParallel_
          ELSE IF Includes(aspectsLower, titleLower) /\ Len(aspectsLower) > Len(titleLower)
            THEN aspectsParallel
          ELSE IF titleLower # aspectsLower THEN titleParallel_
          ELSE aspectsParallel

\* an item summary of the Browse API, as far as transformListings reads it;
\* the price is in dollars, as parseFloat reads it: a fraction, 0 / 0 being
\* the NaN of a price that is no number
NaNPrice == [num |-> 0, den |-> 0]
isNumber(x) == x.den # 0

Item(itemId, title, price, localizedAspects) ==
  [ itemId |-> itemId, title |-> title, price |-> price,
    localizedAspects |-> localizedAspects,
    itemWebUrl |-> "https://www.ebay.com/itm/" \o itemId ]

\* the seller of an item: feedbackPercentage (a fraction of 10) and
\* feedbackScore
Seller(feedbackPercentage, feedbackScore) ==
  [seller |-> [feedbackPercentage |-> feedbackPercentage, feedbackScore |-> feedbackScore]]

\* transformListings on one item: the fields the worker and the deal score
\* read
transformListing(item) ==
  LET aspects == extractAspects(item.localizedAspects)
      parsedFromTitle == parseCardDetails(item.title)
  IN [ ebayItemId |-> item.itemId,
       title |-> item.title,
       currentPrice |-> item.price,
       listingUrl |-> item.itemWebUrl,
       year |-> OrElse(aspects.year, parsedFromTitle.year),
       setName |-> OrElse(aspects.setName, parsedFromTitle.setName),
       cardNumber |-> OrElse(aspects.cardNumber, parsedFromTitle.cardNumber),
       parallel |-> getBetterParallel(aspects.parallel, parsedFromTitle.parallel),
       playerName |-> OrElse(aspects.playerName, parsedFromTitle.playerName),
       grader |-> OrElse(aspects.grader, parsedFromTitle.grader),
       grade |-> OrElse(aspects.grade, parsedFromTitle.grade),
       certNumber |-> OrElse(aspects.certNumber, extractCertFromTitle(item.title)),
       sport |-> OrElse(aspects.sport, parsedFromTitle.sport),
       isAuto |-> aspects.isAuto,
       isAuction |-> "buyingOptions" \in DOMAIN item /\ "AUCTION" \in item.buyingOptions,
       auctionEndTime |-> IF "itemEndDate" \in DOMAIN item THEN <<item.itemEndDate>> ELSE <<>>,
       bidCount |-> IF "bidCount" \in DOMAIN item THEN <<item.bidCount>> ELSE <<0>>,
       sellerRating |-> IF "seller" \in DOMAIN item
                          THEN <<item.seller.feedbackPercentage>> ELSE <<>>,
       sellerFeedbackCount |-> IF "seller" \in DOMAIN item
                                 THEN <<item.seller.feedbackScore>> ELSE <<>>,
       shippingCost |-> IF "shippingOptions" \in DOMAIN item /\ item.shippingOptions # <<>>
                          THEN <<item.shippingOptions[1].shippingCost>> ELSE <<>> ]

(***************************************************************************)
(* Catalog products: the objects of the search response.  A product is a   *)
(* function from the keys it carries to their values; a key it lacks reads *)
(* as undefined.                                                           *)
(***************************************************************************)
GetStr(p, key) == IF key \in DOMAIN p THEN p[key] ELSE null
GetNum(p, key) == IF key \in DOMAIN p THEN Num(p[key]) ELSE undefined

\* encodeURIComponent: unreserved characters are kept, every other one
\* becomes %XX (its ASCII code); the table holds the reserved ASCII
\* punctuation other than the quote and the backslash
PercentCode ==
  [c \in {" ", "#", "$", "%", "&", "+", ",", "/", ":", ";", "<", "=", ">", "?", "@",
          "[", "]", "^", "{", "|", "}"} |->
     CASE c = " " -> "%20" [] c = "#" -> "%23" [] c = "$" -> "%24" [] c = "%" -> "%25"
       [] c = "&" -> "%26" [] c = "+" -> "%2B" [] c = "," -> "%2C" [] c = "/" -> "%2F"
       [] c = ":" -> "%3A" [] c = ";" -> "%3B" [] c = "<" -> "%3C" [] c = "=" -> "%3D"
       [] c = ">" -> "%3E" [] c = "?" -> "%3F" [] c = "@" -> "%40" [] c = "[" -> "%5B"
       [] c = "]" -> "%5D" [] c = "^" -> "%5E" [] c = "{" -> "%7B" [] c = "|" -> "%7C"
       [] c = "}" -> "%7D"]
IsUnreserved(c) == IsWordChar(c) \/ c \in {"-", ".", "!", "~", "*", "'", "(", ")"}
percent(c) == PercentCode[c]
RECURSIVE encodeURIComponent(_)
encodeURIComponent(s) ==
  IF Len(s) = 0 THEN ""
  ELSE IF Len(s) = 1 THEN (IF IsUnreserved(s) THEN s ELSE percent(s))
  ELSE encodeURIComponent(SubSeq(s, 1, Len(s) \div 2))
         \o encodeURIComponent(SubSeq(s, Len(s) \div 2 + 1, Len(s)))

Prices(loose, new, graded, manualOnly) ==
  ("loose-price" :> loose) @@ ("new-price" :> new) @@ ("graded-price" :> graded)
    @@ ("manual-only-price" :> manualOnly)

Product(id, consoleName, productName, genre, prices) ==
  ("id" :> id) @@ ("console-name" :> consoleName) @@ ("product-name" :> productName)
    @@ ("genre" :> genre) @@ prices

\* the products the catalog responses are made of.  `genre' is the
\* catalog's own category of the product; the client never reads it.
catalogProducts ==
  LET consoleHps == "2019 Panini Hoops Premium Stock"
      namePulsar == "LeBron James [Purple Pulsar] #87"
      basketball == "Basketball Card"
      football == "Football Card"
      usual == Prices(1500, 2500, 4000, 12000)
      bare == ("id" :> "p14") @@ ("console-name" :> consoleHps) @@ ("product-name" :> namePulsar)
  IN [ pulsar |-> Product("p1", consoleHps, namePulsar, basketball, usual),
       hoopsBase |-> Product("p20", "2019 Panini Hoops", "LeBron James #87", basketball, usual),
       purple |-> Product("p2", consoleHps, "LeBron James [Purple] #87", basketball,
                          Prices(900, 1200, 2000, 9000)),
       base |-> Product("p3", consoleHps, "LeBron James #87", basketball,
                        Prices(500, 900, 1500, 6000)),
       orangePrizm |-> Product("p4", consoleHps, "LeBron James [Orange Prizm] #87",
                               basketball, usual),
       other |-> Product("p5", consoleHps, "Kevin Durant [Purple Pulsar] #35", basketball, usual),
       pulsarCheap |-> Product("p6", consoleHps, namePulsar, basketball,
                               Prices(100, 200, 300, 400)),
       nextYear |-> Product("p7", "2020 Panini Hoops Premium Stock", namePulsar, basketball,
                            Prices(700, 800, 900, 7000)),
       laterYear |-> Product("p8", "2021 Panini Hoops Premium Stock", namePulsar, basketball,
                             usual),
       splash |-> Product("p9", "2019 Panini Hoops Premium Stock Splash", namePulsar,
                          basketball, Prices(600, 700, 800, 5000)),
       rainmakers |-> Product("p10", "2019 Panini Hoops Premium Stock Rainmakers", namePulsar,
                              basketball, usual),
       auto |-> Product("p11", consoleHps, "LeBron James [Purple Pulsar] #87 Autograph",
                        basketball, Prices(9000, 9100, 9200, 99000)),
       funko |-> Product("p12", "Funko Pop 2019 Panini Hoops Premium Stock", namePulsar,
                         basketball, Prices(10, 20, 30, 40)),
       football |-> Product("p13", consoleHps, "Tom Brady [Purple Pulsar] #87", football,
                            Prices(300, 400, 500, 3300)),
       \* price columns absent, zero or negative
       noPrices |-> bare,
       zero |-> Product("p15", consoleHps, namePulsar, basketball, Prices(0, 0, 0, 0)),
       negative |-> Product("p16", consoleHps, namePulsar, basketball, Prices(1500, -1, -1, -1)),
       looseOnly |-> bare @@ ("loose-price" :> 1500),
       bgs10 |-> bare @@ ("loose-price" :> 1500) @@ ("bgs-10-price" :> 8000),
       negativeLoose |-> bare @@ ("loose-price" :> -5),
       url |-> Product("p1", consoleHps, namePulsar, basketball, usual)
                 @@ ("product-url" :> "https://www.sportscardspro.com/game/x/y"),
       nameless |-> ("id" :> "p20") @@ ("loose-price" :> 1500) ]

(***************************************************************************)
(* The match predicates of getMarketValue's candidate loop                 *)
(***************************************************************************)
\* normalizeParallel without the two suffix replacements
normalizeParallel_keepsSuffix(p) == IF ~Truthy(p) THEN "" ELSE trim(toLowerCase(p))

normalizeParallel(p) ==
  IF ~Truthy(p) THEN ""
  ELSE trim(stripSuffix(stripSuffix(toLowerCase(p), " prizm"), " refractor"))

simpleColors ==
  {"silver", "gold", "blue", "red", "green", "orange", "purple", "pink", "black", "white",
   "bronze", "yellow"}

\* a parallel predicate that lets one name contain the other
parallelMatch_containment(searchParallel, scpParallel) ==
  LET searchParNorm == normalizeParallel(searchParallel)
      scpParNorm == normalizeParallel(scpParallel)
  IN IF searchParNorm = "" /\ scpParNorm = "" THEN TRUE
     ELSE IF searchParNorm = "" \/ scpParNorm = "" THEN FALSE
     ELSE Includes(searchParNorm, scpParNorm) \/ Includes(scpParNorm, searchParNorm)

\* a parallel predicate whose simple-colour branches accept the longer name
parallelMatch_simpleSuffix(searchParallel, scpParallel) ==
  LET searchParNorm == normalizeParallel(searchParallel)
      scpParNorm == normalizeParallel(scpParallel)
  IN IF searchParNorm = "" /\ scpParNorm = "" THEN TRUE
     ELSE IF searchParNorm = "" \/ scpParNorm = "" THEN FALSE
     ELSE IF searchParNorm = scpParNorm THEN TRUE
     ELSE IF searchParNorm \in simpleColors /\ EndsWith(scpParNorm, searchParNorm) THEN TRUE
     ELSE IF scpParNorm \in simpleColors /\ EndsWith(searchParNorm, scpParNorm) THEN TRUE
     ELSE FALSE

parallelMatch(searchParallel, scpParallel) ==
  LET searchParNorm == normalizeParallel(searchParallel)
      scpParNorm == normalizeParallel(scpParallel)
  IN IF searchParNorm = "" /\ scpParNorm = "" THEN TRUE
     ELSE IF searchParNorm = "" \/ scpParNorm = "" THEN FALSE
     ELSE IF searchParNorm = scpParNorm THEN TRUE
     ELSE IF searchParNorm \in simpleColors /\ EndsWith(scpParNorm, searchParNorm)
       THEN scpParNorm \in simpleColors \/ scpParNorm = searchParNorm
     ELSE IF scpParNorm \in simpleColors /\ EndsWith(searchParNorm, scpParNorm)
       THEN searchParNorm \in simpleColors \/ searchParNorm = scpParNorm
     ELSE FALSE

cardMatch(searchNumber, scpData) == String(searchNumber) = String(scpData.cardNumber)

abs(n) == IF n < 0 THEN -n ELSE n
\* a year predicate with a tolerance of two years
yearMatch_withinTwo(searchYear, scpData) ==
  LET searchYearNum == parseInt(searchYear)
      scpYearNum == parseInt(scpData.year)
  IN /\ searchYearNum # NaN
     /\ scpYearNum # NaN
     /\ abs(searchYearNum[1] - scpYearNum[1]) <= 2

yearMatch(searchYear, scpData) ==
  LET searchYearNum == parseInt(searchYear)
      scpYearNum == parseInt(scpData.year)
  IN /\ searchYearNum # NaN
     /\ scpYearNum # NaN
     /\ abs(searchYearNum[1] - scpYearNum[1]) <= 1

setMatch(searchSet, scpData) == toLowerCase(searchSet) = toLowerCase(OrElse(scpData.set, ""))

\* an autograph predicate that compares nothing
autoMatch_ignored(searchIsAuto, scpData) == TRUE

autoMatch(searchIsAuto, scpData) == searchIsAuto = scpData.isAuto

insertMatch(searchInsertSet, scpData) ==
  \/ ~Truthy(searchInsertSet)
  \/ toLowerCase(searchInsertSet) = toLowerCase(OrElse(scpData.insertSet, ""))

consoleNameOf(p) == OrElse(GetStr(p, "console-name"), "")
productNameOf(p) == OrElse(GetStr(p, "product-name"), "")
\* parseSCPProduct of each catalog product, worked out once
parsedProducts ==
  [ p \in {catalogProducts[k] : k \in DOMAIN catalogProducts} |->
      parseSCPProduct(consoleNameOf(p), productNameOf(p)) ]
scpDataOf(p) ==
  IF p \in DOMAIN parsedProducts THEN parsedProducts[p]
  ELSE parseSCPProduct(consoleNameOf(p), productNameOf(p))

\* "Skip non-cards"
isFunko(p) == Includes(toLowerCase(consoleNameOf(p)), "funko")

\* one pass of the loop body: does candidate p become the product?
candidateMatches(s, p) ==
  /\ ~isFunko(p)
  /\ LET scpData == scpDataOf(p)
     IN /\ cardMatch(s.number, scpData)
        /\ yearMatch(s.year, scpData)
        /\ setMatch(s.set, scpData)
        /\ parallelMatch(s.parallel, scpData.parallel)
        /\ autoMatch(s.isAuto, scpData)
        /\ insertMatch(s.insertSet, scpData)

maxToCheckLimit == 5
\* a loop bound that takes every result
maxToCheck_all(prods) == Len(prods)

maxToCheck(prods) == IF Len(prods) < maxToCheckLimit THEN Len(prods) ELSE maxToCheckLimit

\* the loop: the index of the first of the first maxToCheck candidates that
\* matches (the loop breaks there), or 0 when product stays null
RECURSIVE findProductFrom(_, _, _)
findProductFrom(s, prods, i) ==
  IF i > maxToCheck(prods) THEN 0
  ELSE IF candidateMatches(s, prods[i]) THEN i
  ELSE findProductFrom(s, prods, i + 1)
\* a loop that takes the first result as it comes
findProduct_firstResult(s, prods) == IF Len(prods) = 0 THEN 0 ELSE 1

findProduct(s, prods) == findProductFrom(s, prods, 1)

(***************************************************************************)
(* Grade to price column                                                   *)
(***************************************************************************)
\* the column keyed by the grade: [key, price], before the loose fallback
gradedColumn(product, searchGrade) ==
  LET gradeUpper == toUpperCase(searchGrade)
  IN IF ~Truthy(searchGrade) THEN [key |-> "loose-price", price |-> undefined]
     ELSE IF \/ Includes(gradeUpper, "PSA 9")
             \/ Includes(gradeUpper, "BGS 9")
             \/ Includes(gradeUpper, "BGS 9.5")
       THEN [key |-> "graded-price", price |-> GetNum(product, "graded-price")]
     ELSE IF \/ Includes(gradeUpper, "PSA 10")
             \/ Includes(gradeUpper, "BGS 10")
             \/ (Includes(gradeUpper, "GEM") /\ Includes(gradeUpper, "10"))
       THEN [key |-> "manual-only-price",
             price |-> IF TruthyNum(GetNum(product, "manual-only-price"))
                         THEN GetNum(product, "manual-only-price")
                         ELSE GetNum(product, "bgs-10-price")]
     ELSE IF Includes(gradeUpper, "PSA 8") \/ Includes(gradeUpper, "BGS 8")
       THEN [key |-> "new-price", price |-> GetNum(product, "new-price")]
     ELSE [key |-> "loose-price", price |-> undefined]

\* price selection without the fallback to the loose price
selectPrice_noFallback(product, searchGrade) == gradedColumn(product, searchGrade)

\* with the fallback to the loose price
selectPrice(product, searchGrade) ==
  LET g == gradedColumn(product, searchGrade)
  IN IF TruthyNum(g.price) THEN g
     ELSE [key |-> "loose-price", price |-> GetNum(product, "loose-price")]

\* a price test that forgets the sign
noPriceData_missingOnly(price) == ~TruthyNum(price)

\* !priceInPennies || priceInPennies <= 0
noPriceData(price) == ~TruthyNum(price) \/ price[1] <= 0

\* priceInPennies / 100, kept as an exact fraction
Dollars(pennies) == [num |-> pennies, den |-> 100]

sourceUrlOf(product, query) ==
  OrElse(GetStr(product, "product-url"),
         "https://www.sportscardspro.com/game/"
           \o encodeURIComponent(OrElse(GetStr(product, "console-name"), "sports-cards"))
           \o "/"
           \o encodeURIComponent(OrElse(GetStr(product, "product-name"), query)))

(***************************************************************************)
(* SportsCardProClient.getMarketValue, the synchronous stretches           *)
(***************************************************************************)
\* lines 621-629: the search fields as the call starts
initialSearch(a) ==
  [ year |-> a.year, set |-> a.set, number |-> a.cardNumber, player |-> a.player,
    grade |-> a.grade, parallel |-> OrElse(a.parallel, null), isAuto |-> FALSE,
    insertSet |-> null, sport |-> a.sport, cleanPlayer |-> null, query |-> null ]

\* the certificate only fills the fields the listing left empty
applyCert_fillsMissing(s, cert) ==
  [ s EXCEPT
      !.year = IF ~Truthy(@) /\ Truthy(cert.Year) THEN cert.Year ELSE @,
      !.set = IF ~Truthy(@) /\ Truthy(cert.Brand) THEN cert.Brand ELSE @,
      !.number = IF ~Truthy(@) /\ Truthy(cert.CardNumber) THEN cert.CardNumber ELSE @,
      !.player = IF ~Truthy(@) /\ Truthy(cert.Subject) THEN cert.Subject ELSE @,
      !.grade = IF ~Truthy(@) /\ Truthy(cert.CardGrade) THEN "PSA " \o cert.CardGrade ELSE @,
      !.parallel = IF ~Truthy(@) /\ Truthy(cert.Variety) THEN toLowerCase(cert.Variety) ELSE @ ]

\* lines 637-655: a certificate record overrides the fields it carries
applyCert(s, cert) ==
  [ s EXCEPT
      !.year = IF Truthy(cert.Year) THEN cert.Year ELSE @,
      !.set = IF Truthy(cert.Brand) THEN cert.Brand ELSE @,
      !.number = IF Truthy(cert.CardNumber) THEN cert.CardNumber ELSE @,
      !.player = IF Truthy(cert.Subject) THEN cert.Subject ELSE @,
      !.grade = IF Truthy(cert.CardGrade) THEN "PSA " \o cert.CardGrade ELSE @,
      !.parallel = IF Truthy(cert.Variety) THEN toLowerCase(cert.Variety) ELSE @,
      !.isAuto = IF Truthy(cert.Category) /\ Includes(toLowerCase(cert.Category), "auto")
                   THEN TRUE ELSE @ ]

\* lines 662-674
gradeFromTitle(player) ==
  LET titleUpper == toUpperCase(player)
  IN IF Includes(titleUpper, "PSA 10") \/ Includes(titleUpper, "GEM MINT") THEN "PSA 10"
     ELSE IF Includes(titleUpper, "PSA 9") THEN "PSA 9"
     ELSE IF Includes(titleUpper, "BGS 10") THEN "BGS 10"
     ELSE IF Includes(titleUpper, "BGS 9") THEN "BGS 9"
     ELSE null

knownPlayers ==
  << "LeBron James", "Victor Wembanyama", "Luka Doncic", "Anthony Edwards",
     "Stephen Curry", "Shohei Ohtani", "Mike Trout", "Julio Rodriguez",
     "Gunnar Henderson", "Juan Soto" >>

RECURSIVE firstKnownPlayer(_, _)
firstKnownPlayer(list, lowerTitle) ==
  IF Len(list) = 0 THEN null
  ELSE IF Includes(lowerTitle, toLowerCase(Head(list))) THEN Head(list)
  ELSE firstKnownPlayer(Tail(list), lowerTitle)

titleLengthLimit == 30

\* lines 662-695: grade from the title, the title-parse fallbacks, the clean
\* player name
fallbackFromTitle(a, s) ==
  LET withGrade ==
        IF ~Truthy(s.grade) /\ Truthy(a.player)
          THEN [s EXCEPT !.grade = IF gradeFromTitle(a.player) = null THEN @
                                   ELSE gradeFromTitle(a.player)]
          ELSE s
      parsed == parseTitle(a.player)
      withTitle ==
        IF Truthy(a.player) /\ Len(a.player) > titleLengthLimit
          THEN [ withGrade EXCEPT
                   !.year = IF ~Truthy(@) /\ Truthy(parsed.year) THEN parsed.year ELSE @,
                   !.set = IF ~Truthy(@) /\ Truthy(parsed.set) THEN parsed.set ELSE @,
                   !.player = IF Truthy(parsed.player) THEN parsed.player ELSE @,
                   !.isAuto = IF parsed.isAuto THEN TRUE ELSE @,
                   !.insertSet = IF Truthy(parsed.insertSet) THEN parsed.insertSet ELSE @ ]
          ELSE withGrade
      known == IF Truthy(a.player) THEN firstKnownPlayer(knownPlayers, toLowerCase(a.player))
               ELSE null
  IN [withTitle EXCEPT !.cleanPlayer = IF known = null THEN withTitle.player ELSE known]

\* early returns that forget the set
missingRequired_withoutSet(s) == ~Truthy(s.number) \/ ~Truthy(s.year)

\* lines 697-709: the three early returns
missingRequired(s) == ~Truthy(s.number) \/ ~Truthy(s.year) \/ ~Truthy(s.set)

\* lines 713-721
RECURSIVE truthyParts(_)
truthyParts(parts) ==
  IF Len(parts) = 0 THEN <<>>
  ELSE IF Truthy(Head(parts)) THEN <<Head(parts)>> \o truthyParts(Tail(parts))
  ELSE truthyParts(Tail(parts))
buildQuery(s) ==
  trim(join(truthyParts(<< s.year, s.set, s.insertSet, s.cleanPlayer,
                           IF Truthy(s.number) THEN "#" \o s.number ELSE null,
                           s.parallel >>)))

NoValue == <<>>
Value(d) == <<d>>

\* lines 728-874: what the resolver makes of the search response.  `outcome'
\* names the branch taken (the console message of the code).
resolveProducts(s, prods, time) ==
  IF Len(prods) = 0 THEN [outcome |-> "no-results", index |-> 0, result |-> null]
  ELSE LET i == findProduct(s, prods) IN
    IF i = 0 THEN [outcome |-> "no-candidate-match", index |-> 0, result |-> null]
    ELSE LET product == prods[i]
             sel == selectPrice(product, s.grade)
         IN IF noPriceData(sel.price)
              THEN [outcome |-> "no-price-data", index |-> i, result |-> null]
              ELSE [ outcome |-> "quote", index |-> i,
                     result |-> [ marketValue |-> Value(Dollars(sel.price[1])),
                                  source |-> "sportscardpro",
                                  sourceUrl |-> sourceUrlOf(product, s.query),
                                  productName |-> GetStr(product, "product-name"),
                                  productId |-> GetStr(product, "id"),
                                  priceType |-> sel.key,
                                  lastUpdated |-> time ] ]

(***************************************************************************)
(* PriceService                                                            *)
(***************************************************************************)
cacheTTL == 60 * 60 * 1000

cacheKey(a) ==
  toLowerCase(OrElse(a.certNumber, "") \o ":" \o String(a.player) \o ":" \o String(a.year)
              \o ":" \o String(a.set) \o ":" \o String(a.grade) \o ":"
              \o OrElse(a.cardNumber, "") \o ":" \o OrElse(a.parallel, "") \o ":"
              \o OrElse(a.sport, ""))

cacheHit_atTTL(cache, key, time) ==
  key \in DOMAIN cache /\ cache[key].timestamp >= time - cacheTTL

cacheHit(cache, key, time) ==
  key \in DOMAIN cache /\ cache[key].timestamp > time - cacheTTL

unknownResult(time) ==
  [ marketValue |-> NoValue, source |-> "unknown", sourceUrl |-> null,
    confidence |-> "none", lastUpdated |-> time ]

withConfidence(result, a) ==
  [ marketValue |-> result.marketValue, source |-> result.source,
    sourceUrl |-> result.sourceUrl, productName |-> result.productName,
    productId |-> result.productId, priceType |-> result.priceType,
    lastUpdated |-> result.lastUpdated,
    confidence |-> IF Truthy(a.certNumber) THEN "very-high" ELSE "high" ]

cacheSet(cache, key, entry) ==
  [k \in DOMAIN cache \cup {key} |-> IF k = key THEN entry ELSE cache[k]]

(***************************************************************************)
(* The environment: the listings handed to getMarketValue, the responses   *)
(* of the certificate authority and of the catalog search                  *)
(***************************************************************************)
Args(player, year, set, grade, cardNumber, parallel, sport, certNumber) ==
  [ player |-> player, year |-> year, set |-> set, grade |-> grade,
    cardNumber |-> cardNumber, parallel |-> parallel, sport |-> sport,
    certNumber |-> certNumber ]

hps == "Hoops Premium Stock"

pulsarListing == Args(titles.pulsar, "2019", hps, "PSA 10", "87", "purple pulsar", "basketball", null)

Listings ==
  { pulsarListing,
    \* identity fields missing, with and without a title or certificate to fall back on
    [pulsarListing EXCEPT !.year = null],
    [pulsarListing EXCEPT !.set = null],
    [pulsarListing EXCEPT !.cardNumber = null],
    [pulsarListing EXCEPT !.player = titles.short, !.year = null],
    [pulsarListing EXCEPT !.player = titles.short, !.set = null],
    [pulsarListing EXCEPT !.player = titles.short, !.year = null, !.certNumber = "12345678"],
    [pulsarListing EXCEPT !.cardNumber = null, !.certNumber = "12345678"],
    \* the certificate against a conflicting seller/title value
    [pulsarListing EXCEPT !.parallel = "purple", !.certNumber = "12345678"],
    \* parallels
    [pulsarListing EXCEPT !.parallel = "purple"],
    [pulsarListing EXCEPT !.parallel = "Purple Pulsar Prizm"],
    [pulsarListing EXCEPT !.parallel = null],
    [pulsarListing EXCEPT !.player = titles.short, !.parallel = "orange", !.grade = "PSA 9"],
    \* year, sport, set spelling
    [pulsarListing EXCEPT !.year = "2020"],
    [pulsarListing EXCEPT !.year = "2021"],
    [pulsarListing EXCEPT !.sport = "football"],
    [pulsarListing EXCEPT !.set = "HOOPS PREMIUM STOCK"],
    \* autograph and insert line, read from a long title only
    [pulsarListing EXCEPT !.player = titles.auto],
    [pulsarListing EXCEPT !.player = titles.splash],
    [pulsarListing EXCEPT !.player = titles.short],
    \* grades
    [pulsarListing EXCEPT !.grade = "PSA 9"],
    [pulsarListing EXCEPT !.grade = "BGS 9.5"],
    [pulsarListing EXCEPT !.grade = "PSA 8"],
    [pulsarListing EXCEPT !.grade = "Raw"],
    [pulsarListing EXCEPT !.grade = null],
    [pulsarListing EXCEPT !.player = titles.short, !.grade = null] }

Cert(year, brand, cardNumber, subject, cardGrade, variety, category) ==
  [ Year |-> year, Brand |-> brand, CardNumber |-> cardNumber, Subject |-> subject,
    CardGrade |-> cardGrade, Variety |-> variety, Category |-> category ]

\* psa.getCertInfo resolves to null (response not ok), to an object without
\* PSACert, or to {PSACert: cert}
PSAResponses ==
  { [kind |-> "null"],
    [kind |-> "empty"],
    [kind |-> "cert",
     cert |-> Cert("2019", hps, "87", "LeBron James", "GEM MT 10", "Purple Pulsar",
                   "BASKETBALL CARDS")],
    [kind |-> "cert", cert |-> Cert("2019", null, null, null, null, null, null)],
    [kind |-> "cert",
     cert |-> Cert("2019", hps, "87", "LeBron James", "9", null, "AUTOGRAPHED CARDS")] }

\* data.products || []
Catalogs ==
  LET P == catalogProducts IN
  { <<>>,
    <<P.pulsar>>, <<P.purple>>, <<P.base>>, <<P.orangePrizm>>, <<P.nextYear>>, <<P.laterYear>>,
    <<P.splash>>, <<P.rainmakers>>, <<P.auto>>, <<P.football>>, <<P.url>>, <<P.nameless>>,
    <<P.noPrices>>, <<P.zero>>, <<P.negative>>, <<P.looseOnly>>, <<P.bgs10>>, <<P.negativeLoose>>,
    <<P.funko, P.pulsar>>,
    <<P.purple, P.base, P.pulsar, P.pulsarCheap>>,
    <<P.other, P.purple, P.base, P.funko, P.pulsar>>,
    <<P.other, P.purple, P.base, P.laterYear, P.orangePrizm, P.pulsar>>,
    <<P.other, P.other, P.other, P.other, P.other, P.base, P.purple>> }


\* the narrower environment of the service that lives through several calls
RepeatListings ==
  { pulsarListing,
    [pulsarListing EXCEPT !.set = "HOOPS PREMIUM STOCK"],
    [pulsarListing EXCEPT !.grade = "PSA 9", !.certNumber = "12345678"],
    [pulsarListing EXCEPT !.player = titles.short, !.year = null] }

RepeatPSAResponses ==
  { [kind |-> "null"],
    [kind |-> "cert",
     cert |-> Cert("2019", hps, "87", "LeBron James", "GEM MT 10", "Purple Pulsar",
                   "BASKETBALL CARDS")] }

RepeatCatalogs ==
  LET P == catalogProducts
  IN { <<>>, <<P.pulsar>>, <<P.purple>>, <<P.purple, P.pulsarCheap>>, <<P.zero>> }

(***************************************************************************)
(* State                                                                   *)
(***************************************************************************)
VARIABLES
  hasSportsCardProToken,  \* pricing.js:11, and this.token of the client
  hasPSACredentials,      \* sportscardpro.js:318
  now,                    \* Date.now(), in milliseconds
  cache,                  \* PriceService.cache: key -> [data, timestamp]
  pc,                     \* where the one call in flight stands
  args,                   \* the arguments of the call
  search,                 \* searchYear, searchSet, ... of getMarketValue
  products,               \* the search response the loop ran over
  matchIdx,               \* the index of `product' in it, 0 for null
  outcome,                \* the branch the call ended in
  ret,                    \* what PriceService.getMarketValue returned
  psaCalls,               \* psa.getCertInfo calls made by this call
  searchCalls,            \* searchCards fetches made by this call
  calls,                  \* calls started so far
  started,                \* Date.now() as the call read the cache
  psaData,                \* what psa.getCertInfo gave the call
  other,                  \* a second call of the service, in flight with the first
  item,                   \* the eBay item the worker is at
  listing,                \* transformListings of it
  wpc,                    \* where processListings stands with it
  log,                    \* the scan_log row written for it
  rows,                   \* the listings table
  platform,               \* the platform argument of processListings
  logWrites,              \* logScan calls made for the listing
  errors,                 \* listings that ended in the catch of processListings
  pin,                    \* input and
  pout                    \* output of a pure function applied on its own

vars ==
  << hasSportsCardProToken, hasPSACredentials, now, cache, pc, args, search, products,
     matchIdx, outcome, ret, psaCalls, searchCalls, calls, started, psaData, other,
     item, listing, wpc, log, rows, platform, logWrites, errors, pin, pout >>

\* the variables of the worker's loop
scanVars == <<item, listing, wpc, log, rows, platform, logWrites, errors>>

MaxCalls == 2
MaxTicks == 2
TickMs == 1800000

noArgs == Args(null, null, null, null, null, null, null, null)
noReturn == [pending |-> TRUE]
noPure == [f |-> "none"]
emptyCache == [k \in {} |-> noReturn]
noPSA == [kind |-> "none"]
noOther == [pc |-> "idle"]
noItem == [none |-> TRUE]
noLog == [outcome |-> "none"]

\* a service just constructed, no call made
InitService ==
  /\ now = 0
  /\ cache = emptyCache
  /\ pc = "idle"
  /\ args = noArgs
  /\ search = initialSearch(noArgs)
  /\ products = <<>>
  /\ matchIdx = 0
  /\ outcome = "idle"
  /\ ret = noReturn
  /\ psaCalls = 0
  /\ searchCalls = 0
  /\ calls = 0
  /\ started = 0
  /\ psaData = noPSA
  /\ other = noOther
  /\ item = noItem
  /\ listing = noItem
  /\ wpc = "idle"
  /\ log = noLog
  /\ rows = {}
  /\ platform = null
  /\ logWrites = 0
  /\ errors = 0

Init ==
  /\ hasSportsCardProToken \in BOOLEAN
  /\ hasPSACredentials \in BOOLEAN
  /\ InitService
  /\ pin = noPure
  /\ pout = noPure

(***************************************************************************)
(* PriceService.getMarketValue around SportsCardProClient.getMarketValue   *)
(***************************************************************************)
\* pricing.js 49-63 with the resolver's result r
Finish(r) ==
  /\ pc' = "done"
  /\ outcome' = r.outcome
  /\ matchIdx' = r.index
  /\ IF r.outcome = "quote"
       THEN /\ ret' = withConfidence(r.result, args)
            /\ cache' = cacheSet(cache, cacheKey(args),
                                 [data |-> withConfidence(r.result, args), timestamp |-> now])
       ELSE /\ ret' = unknownResult(now)
            /\ cache' = cache

\* sportscardpro.js 662-726 from the search fields s0 left by the
\* certificate step: up to the early returns or the search request
Proceed(a, s0) ==
  LET s == fallbackFromTitle(a, s0)
  IN IF missingRequired(s)
       THEN /\ search' = s
            /\ searchCalls' = 0
            /\ pc' = "done"
            /\ outcome' = "insufficient-identity"
            /\ ret' = unknownResult(now)
       ELSE /\ search' = [s EXCEPT !.query = buildQuery(s)]
            /\ searchCalls' = 1
            /\ pc' = "awaitSearch"
            /\ outcome' = "searching"
            /\ ret' = noReturn

\* pricing.js 23-47 and sportscardpro.js 620-635
getMarketValue(a) ==
  /\ pc = "idle"
  /\ calls' = calls + 1
  /\ args' = a
  /\ started' = now
  /\ psaData' = noPSA
  /\ products' = <<>>
  /\ matchIdx' = 0
  /\ cache' = cache
  /\ UNCHANGED <<hasSportsCardProToken, hasPSACredentials, now, other, pin, pout>>
  /\ IF cacheHit(cache, cacheKey(a), now)
       THEN /\ pc' = "done"
            /\ outcome' = "cache-hit"
            /\ ret' = cache[cacheKey(a)].data
            /\ search' = initialSearch(noArgs)
            /\ psaCalls' = 0
            /\ searchCalls' = 0
     ELSE IF ~hasSportsCardProToken
       THEN /\ pc' = "done"
            /\ outcome' = "no-token"
            /\ ret' = unknownResult(now)
            /\ search' = initialSearch(noArgs)
            /\ psaCalls' = 0
            /\ searchCalls' = 0
     ELSE IF Truthy(a.certNumber) /\ hasPSACredentials
       THEN /\ pc' = "awaitPSA"
            /\ outcome' = "certificate-lookup"
            /\ ret' = noReturn
            /\ search' = initialSearch(a)
            /\ psaCalls' = 1
            /\ searchCalls' = 0
     ELSE /\ psaCalls' = 0
          /\ Proceed(a, initialSearch(a))

\* a call of the service from outside the worker's loop
Call(a) == getMarketValue(a) /\ UNCHANGED scanVars

\* sportscardpro.js 635-655: the certificate lookup resolves
PSAReturn(resp) ==
  /\ pc = "awaitPSA"
  /\ Proceed(args, IF resp.kind = "cert" THEN applyCert(search, resp.cert) ELSE search)
  /\ psaData' = resp
  /\ UNCHANGED <<hasSportsCardProToken, hasPSACredentials, now, cache, args, products,
                 matchIdx, psaCalls, calls, started, other, pin, pout>>
  /\ UNCHANGED scanVars

PSAThrow_propagates ==
  /\ pc = "awaitPSA"
  /\ pc' = "done"
  /\ outcome' = "source-unavailable"
  /\ ret' = [threw |-> TRUE]
  /\ psaData' = [kind |-> "throw"]
  /\ UNCHANGED <<hasSportsCardProToken, hasPSACredentials, now, cache, args, search, products,
                 matchIdx, psaCalls, searchCalls, calls, started, other, pin, pout>>
  /\ UNCHANGED scanVars

\* sportscardpro.js 656-659: the certificate lookup throws
PSAThrow ==
  /\ pc = "awaitPSA"
  /\ Proceed(args, search)
  /\ psaData' = [kind |-> "throw"]
  /\ UNCHANGED <<hasSportsCardProToken, hasPSACredentials, now, cache, args, products,
                 matchIdx, psaCalls, calls, started, other, pin, pout>>
  /\ UNCHANGED scanVars

\* sportscardpro.js 726-874 and pricing.js 38-63: the search resolves
SearchReturn(prods) ==
  /\ pc = "awaitSearch"
  /\ products' = prods
  /\ Finish(resolveProducts(search, prods, now))
  /\ UNCHANGED <<hasSportsCardProToken, hasPSACredentials, now, args, search, psaCalls,
                 searchCalls, calls, started, psaData, other, pin, pout>>
  /\ UNCHANGED scanVars

\* the rejection of the search leaves both catch blocks and reaches the caller
SearchThrow_rethrows ==
  /\ pc = "awaitSearch"
  /\ products' = <<>>
  /\ pc' = "done"
  /\ outcome' = "source-unavailable"
  /\ matchIdx' = 0
  /\ ret' = [threw |-> TRUE]
  /\ cache' = cache
  /\ UNCHANGED <<hasSportsCardProToken, hasPSACredentials, now, args, search, psaCalls,
                 searchCalls, calls, started, psaData, other, pin, pout>>
  /\ UNCHANGED scanVars

\* sportscardpro.js 439-451 and 875-878: fetch rejects, the status is not ok
\* or the body is not JSON; searchCards rethrows, getMarketValue returns null
SearchThrow ==
  /\ pc = "awaitSearch"
  /\ products' = <<>>
  /\ Finish([outcome |-> "source-unavailable", index |-> 0, result |-> null])
  /\ UNCHANGED <<hasSportsCardProToken, hasPSACredentials, now, args, search, psaCalls,
                 searchCalls, calls, started, psaData, other, pin, pout>>
  /\ UNCHANGED scanVars

\* worker.js 641-716: the loop over the listings goes on to the next one;
\* the locals of the finished call are gone, the service and its cache stay
NextListing_stopsAtError ==
  /\ \/ pc = "done" /\ wpc = "idle"
     \/ wpc \in {"logged", "dropped"} /\ errors = 0
  /\ calls < MaxCalls
  /\ pc' = "idle"
  /\ args' = noArgs
  /\ search' = initialSearch(noArgs)
  /\ products' = <<>>
  /\ matchIdx' = 0
  /\ outcome' = "idle"
  /\ ret' = noReturn
  /\ psaCalls' = 0
  /\ searchCalls' = 0
  /\ started' = 0
  /\ psaData' = noPSA
  /\ item' = noItem
  /\ listing' = noItem
  /\ wpc' = "idle"
  /\ log' = noLog
  /\ platform' = null
  /\ logWrites' = 0
  /\ UNCHANGED <<hasSportsCardProToken, hasPSACredentials, now, cache, calls, other, rows,
                 errors, pin, pout>>

NextListing ==
  /\ \/ pc = "done" /\ wpc = "idle"
     \/ wpc \in {"logged", "dropped"}
  /\ calls < MaxCalls
  /\ pc' = "idle"
  /\ args' = noArgs
  /\ search' = initialSearch(noArgs)
  /\ products' = <<>>
  /\ matchIdx' = 0
  /\ outcome' = "idle"
  /\ ret' = noReturn
  /\ psaCalls' = 0
  /\ searchCalls' = 0
  /\ started' = 0
  /\ psaData' = noPSA
  /\ item' = noItem
  /\ listing' = noItem
  /\ wpc' = "idle"
  /\ log' = noLog
  /\ platform' = null
  /\ logWrites' = 0
  /\ UNCHANGED <<hasSportsCardProToken, hasPSACredentials, now, cache, calls, other, rows,
                 errors, pin, pout>>

(***************************************************************************)
(* A second call of PriceService.getMarketValue on the same service, as    *)
(* the request handlers of server.js make them: it may start while the     *)
(* first call is awaiting a response.  Between its cache read and its      *)
(* cache write the call touches nothing the two calls share, so it takes   *)
(* two steps: up to its first await, and from the responses to its return. *)
(***************************************************************************)
\* sportscardpro.js 620-695: the search fields, given what the certificate
\* lookup gave
identityOf(a, psa) ==
  fallbackFromTitle(a, IF psa.kind = "cert" THEN applyCert(initialSearch(a), psa.cert)
                       ELSE initialSearch(a))

\* sportscardpro.js 697-878 from the search fields s, given what the search
\* gave
resolveFound(s, found, time) ==
  IF missingRequired(s)
    THEN [outcome |-> "insufficient-identity", index |-> 0, result |-> null, searchCalls |-> 0]
  ELSE IF found.kind = "throw"
    THEN [outcome |-> "source-unavailable", index |-> 0, result |-> null, searchCalls |-> 1]
  ELSE [searchCalls |-> 1]
         @@ resolveProducts([s EXCEPT !.query = buildQuery(s)], found.products, time)

\* pricing.js 23-47
OtherCall(a) ==
  /\ other.pc = "idle"
  /\ other' =
       IF cacheHit(cache, cacheKey(a), now)
         THEN [ pc |-> "done", args |-> a, started |-> now, outcome |-> "cache-hit",
                ret |-> cache[cacheKey(a)].data, searchCalls |-> 0 ]
       ELSE IF ~hasSportsCardProToken
         THEN [ pc |-> "done", args |-> a, started |-> now, outcome |-> "no-token",
                ret |-> unknownResult(now), searchCalls |-> 0 ]
       ELSE [ pc |-> "await", args |-> a, started |-> now, outcome |-> "searching",
              ret |-> noReturn, searchCalls |-> 0 ]
  /\ UNCHANGED <<hasSportsCardProToken, hasPSACredentials, now, cache, pc, args, search,
                 products, matchIdx, outcome, ret, psaCalls, searchCalls, calls, started,
                 psaData, pin, pout>>
  /\ UNCHANGED scanVars

\* pricing.js 49-63 on what the resolver came to
resultOf(r, a, time) ==
  IF r.outcome = "quote" THEN withConfidence(r.result, a) ELSE unknownResult(time)

\* sportscardpro.js 635-878 and pricing.js 38-63, given the responses
OtherReturn(psa, found) ==
  /\ other.pc = "await"
  /\ psa # noPSA <=> (Truthy(other.args.certNumber) /\ hasPSACredentials)
  /\ \E s \in {identityOf(other.args, psa)} :
       \E r \in {resolveFound(s, found, now)} :
         \E result \in {resultOf(r, other.args, now)} :
           /\ other' = [other EXCEPT !.pc = "done", !.outcome = r.outcome, !.ret = result,
                                     !.searchCalls = r.searchCalls]
           /\ cache' = IF r.outcome = "quote"
                         THEN cacheSet(cache, cacheKey(other.args),
                                       [data |-> result, timestamp |-> now])
                         ELSE cache
  /\ UNCHANGED <<hasSportsCardProToken, hasPSACredentials, now, pc, args, search,
                 products, matchIdx, outcome, ret, psaCalls, searchCalls, calls, started,
                 psaData, pin, pout>>
  /\ UNCHANGED scanVars

(***************************************************************************)
(* The worker: processListings over the listings of a scan (worker.js,     *)
(* the revision at lines 490-760)                                          *)
(***************************************************************************)
\* let settings = { minPrice: 0, maxPrice: 500, minDealScore: 10, ... }
settings == [minPrice |-> Dollars(0), maxPrice |-> Dollars(50000), minDealScore |-> 10]

isPSA9or10(l) ==
  LET title == toUpperCase(OrElse(l.title, ""))
      grade == toUpperCase(OrElse(l.grade, ""))
  IN \/ Includes(title, "PSA 10") \/ Includes(title, "PSA 9")
     \/ Includes(grade, "PSA 10") \/ Includes(grade, "PSA 9")

\* worker.js 652-653; every comparison with NaN is false
inPriceRange(l) ==
  /\ isNumber(l.currentPrice)
  /\ l.currentPrice.num >= settings.minPrice.num /\ l.currentPrice.num <= settings.maxPrice.num

outOfRange(l) ==
  /\ isNumber(l.currentPrice)
  /\ l.currentPrice.num < settings.minPrice.num \/ l.currentPrice.num > settings.maxPrice.num

\* worker.js 604 and 682: the id of the item, or one made of the platform,
\* the time and a random string, which no other row carries
itemId(l) ==
  IF Truthy(l.ebayItemId) THEN l.ebayItemId ELSE platform \o "-" \o ToString(calls)

\* worker.js 560-570: the arguments of pricing.getMarketValue
workerArgs(l, sport) ==
  Args(l.title, l.year, l.setName, l.grade, l.cardNumber, l.parallel, sport, l.certNumber)

noMarketData == [value |-> NoValue]

\* worker.js 571-581 on the result of pricing.getMarketValue
marketDataOf(result) ==
  IF result.source = "unknown" \/ result.marketValue = NoValue
       \/ result.marketValue[1].num = 0
    THEN noMarketData
    ELSE [ value |-> result.marketValue, source |-> result.source,
           sourceUrl |-> result.sourceUrl, date |-> result.lastUpdated ]

\* Math.round(x) for x = n / d with d > 0: the integer nearest to x, a tie
\* going up
round(n, d) == (2 * n + d) \div (2 * d)

workerDealScore_truncates(price, marketValue) ==
  IF marketValue = NoValue \/ marketValue[1].num <= 0 THEN 0
  ELSE LET v == marketValue[1].num
           discount == (100 * (v - price.num)) \div v
       IN IF discount < 0 THEN 0 ELSE IF discount > 100 THEN 100 ELSE discount

\* worker.js 588-592, price and market value in dollars
workerDealScore(price, marketValue) ==
  IF marketValue = NoValue \/ marketValue[1].num <= 0 THEN 0
  ELSE LET v == marketValue[1].num
           discount == round(100 * (v - price.num), v)
       IN IF discount < 0 THEN 0 ELSE IF discount > 100 THEN 100 ELSE discount

\* worker.js 687-704: the row of the listings table
rowOf(l, marketData, dealScore) ==
  [ ebay_item_id |-> itemId(l), title |-> l.title, current_price |-> l.currentPrice,
    listing_url |-> l.listingUrl, platform |-> platform,
    grade |-> OrElse(l.grade, "Raw"), market_value |-> marketData.value,
    market_value_source |-> marketData.source, market_value_url |-> marketData.sourceUrl,
    market_value_date |-> marketData.date, deal_score |-> dealScore ]

Log(outcome_, reason, marketData, dealScore) ==
  [outcome |-> outcome_, reason |-> reason, market_value |-> marketData.value,
   deal_score |-> dealScore]

\* ebay.js 126 and worker.js 726: searchListings hands the worker a
\* transformed listing
SearchListings(it) ==
  /\ pc = "idle"
  /\ wpc = "idle"
  /\ wpc' = "listed"
  /\ item' = it
  /\ listing' = transformListing(it)
  /\ platform' = "ebay"
  /\ UNCHANGED <<hasSportsCardProToken, hasPSACredentials, now, cache, pc, args, search,
                 products, matchIdx, outcome, ret, psaCalls, searchCalls, calls, started,
                 psaData, other, log, rows, logWrites, errors, pin, pout>>

\* comc.js 108-120 and worker.js 739-741: a listing of COMC, which carries
\* no item id
SearchComc(l) ==
  /\ pc = "idle"
  /\ wpc = "idle"
  /\ wpc' = "listed"
  /\ item' = noItem
  /\ listing' = l
  /\ platform' = "comc"
  /\ UNCHANGED <<hasSportsCardProToken, hasPSACredentials, now, cache, pc, args, search,
                 products, matchIdx, outcome, ret, psaCalls, searchCalls, calls, started,
                 psaData, other, log, rows, logWrites, errors, pin, pout>>

\* worker.js 643-663: the filters, then the call of pricing.getMarketValue
Scan(sport) ==
  /\ pc = "idle"
  /\ wpc = "listed"
  /\ UNCHANGED <<item, listing, rows, platform, errors>>
  /\ IF isPSA9or10(listing) /\ inPriceRange(listing)
       THEN /\ wpc' = "awaitValue"
            /\ log' = noLog
            /\ logWrites' = logWrites
            /\ getMarketValue(workerArgs(listing, sport))
       ELSE /\ IF ~isPSA9or10(listing)
                 THEN /\ wpc' = "logged"
                      /\ log' = Log("rejected", "not PSA 9 or 10", noMarketData, 0)
                      /\ logWrites' = logWrites + 1
               ELSE IF outOfRange(listing)
                 THEN /\ wpc' = "logged"
                      /\ log' = Log("rejected", "price outside range", noMarketData, 0)
                      /\ logWrites' = logWrites + 1
               \* in neither of the two lists of lines 652-653
               ELSE /\ wpc' = "dropped"
                    /\ log' = noLog
                    /\ logWrites' = logWrites
            /\ UNCHANGED <<hasSportsCardProToken, hasPSACredentials, now, cache, pc, args,
                           search, products, matchIdx, outcome, ret, psaCalls, searchCalls,
                           calls, started, psaData, other, pin, pout>>

Record_noMinimum(dbThrows) ==
  LET marketData == marketDataOf(ret)
      dealScore == workerDealScore(listing.currentPrice, marketData.value)
      existing == \E r \in rows : r.ebay_item_id = itemId(listing)
  IN
  /\ pc = "done"
  /\ wpc = "awaitValue"
  /\ wpc' = "logged"
  /\ logWrites' = logWrites + 1
  /\ IF marketData = noMarketData
       THEN log' = Log("rejected", "no match", noMarketData, 0) /\ rows' = rows
            /\ errors' = errors
     ELSE IF dbThrows
       THEN log' = Log("rejected", "error", noMarketData, 0) /\ rows' = rows
            /\ errors' = errors + 1
     ELSE IF existing
       THEN log' = Log("matched", "already exists", marketData, dealScore) /\ rows' = rows
            /\ errors' = errors
     ELSE /\ log' = Log("saved", null, marketData, dealScore)
          /\ rows' = rows \cup {rowOf(listing, marketData, dealScore)}
          /\ errors' = errors
  /\ UNCHANGED <<hasSportsCardProToken, hasPSACredentials, now, cache, pc, args, search,
                 products, matchIdx, outcome, ret, psaCalls, searchCalls, calls, started,
                 psaData, other, item, listing, platform, pin, pout>>

\* worker.js 663-713: the rest of the turn of the loop, once the market
\* value is there; dbThrows is a rejection by the database
Record(dbThrows) ==
  LET marketData == marketDataOf(ret)
      dealScore == workerDealScore(listing.currentPrice, marketData.value)
      existing == \E r \in rows : r.ebay_item_id = itemId(listing)
  IN
  /\ pc = "done"
  /\ wpc = "awaitValue"
  /\ wpc' = "logged"
  /\ logWrites' = logWrites + 1
  /\ IF marketData = noMarketData
       THEN log' = Log("rejected", "no match", noMarketData, 0) /\ rows' = rows
            /\ errors' = errors
     ELSE IF dealScore < settings.minDealScore
       THEN log' = Log("rejected", "score < min", marketData, dealScore) /\ rows' = rows
            /\ errors' = errors
     ELSE IF dbThrows
       THEN log' = Log("rejected", "error", noMarketData, 0) /\ rows' = rows
            /\ errors' = errors + 1
     ELSE IF existing
       THEN log' = Log("matched", "already exists", marketData, dealScore) /\ rows' = rows
            /\ errors' = errors
     ELSE /\ log' = Log("saved", null, marketData, dealScore)
          /\ rows' = rows \cup {rowOf(listing, marketData, dealScore)}
          /\ errors' = errors
  /\ UNCHANGED <<hasSportsCardProToken, hasPSACredentials, now, cache, pc, args, search,
                 products, matchIdx, outcome, ret, psaCalls, searchCalls, calls, started,
                 psaData, other, item, listing, platform, pin, pout>>

\* time passes
Tick ==
  /\ now < MaxTicks * TickMs
  /\ now' = now + TickMs
  /\ UNCHANGED <<hasSportsCardProToken, hasPSACredentials, cache, pc, args, search,
                 products, matchIdx, outcome, ret, psaCalls, searchCalls, calls, started,
                 psaData, other, pin, pout>>
  /\ UNCHANGED scanVars

\* one resolution, of any listing against any catalog response, by a
\* service just constructed
Next ==
  \/ \E a \in Listings : Call(a)
  \/ \E resp \in PSAResponses : PSAReturn(resp)
  \/ PSAThrow
  \/ \E prods \in Catalogs : SearchReturn(prods)
  \/ SearchThrow
  \/ Tick

Spec == Init /\ [][Next]_vars

\* a service that lives through MaxCalls resolutions
NextRepeat ==
  \/ \E a \in RepeatListings : Call(a)
  \/ \E resp \in RepeatPSAResponses : PSAReturn(resp)
  \/ PSAThrow
  \/ \E prods \in RepeatCatalogs : SearchReturn(prods)
  \/ SearchThrow
  \/ NextListing
  \/ Tick

SpecRepeat == Init /\ [][NextRepeat]_vars

(***************************************************************************)
(* A scan of the worker: eBay items, transformed, filtered, priced and     *)
(* saved one after the other                                               *)
(***************************************************************************)
scanSport == "basketball"

ScanItems ==
  LET certAspect == Aspect("Certification Number", "PSA 12345678")
      price == Dollars(4000)
  IN { Item("v1", titles.pulsar, price, <<>>),
       \* the seller's item specifics beside the title
       Item("v1", titles.pulsar, price, <<Aspect("Parallel/Variety", "Purple")>>),
       Item("v3", titles.pulsar, price,
            << Aspect("Parallel", "Gold"), Aspect("Season", "2020-21"),
               Aspect("Set", "Hoops"), Aspect("Card Number", "#12") >>),
       Item("v4", "LeBron James PSA 10", price,
            << Aspect("Year", "2019"), Aspect("Set", hps), Aspect("Card Number", "87"),
               Aspect("Parallel", "Purple Pulsar"), Aspect("Grade", "10") >>),
       \* a certificate number, from the item specifics or from the title
       Item("v5", "2019 Panini Hoops Premium Stock LeBron James Purple #87 PSA 10", price,
            <<certAspect>>),
       Item("v6", titles.pulsar, price, <<Aspect("Parallel", "purple"), certAspect>>),
       Item("v7", "LeBron James PSA 10 cert #12345678", price, <<>>),
       \* turned away by the filters or by the score
       Item("v8", "2019 Panini Hoops Premium Stock LeBron James [Purple Pulsar] #87 BGS 9.5",
            price, <<>>),
       Item("v9", titles.pulsar, Dollars(60000), <<>>),
       Item("v10", titles.pulsar, Dollars(11500), <<>>),
       \* a seller with 99.8 % positive feedback out of 1500
       Item("v11", titles.pulsar, price, <<>>) @@ Seller([num |-> 998, den |-> 10], 1500),
       \* a price that parseFloat does not read
       Item("v12", titles.pulsar, NaNPrice, <<>>) }

\* a listing of COMC: the fields of comc.js 110-118 and those that
\* COMCClient.parseCardDetails (comc.js 190-253) takes from the title; the
\* fields it does not carry read as undefined
ComcListings ==
  LET title == "2019 Panini Hoops LeBron James #87 PSA 10"
  IN { [ ebayItemId |-> null, title |-> title, currentPrice |-> Dollars(4000),
         listingUrl |-> "https://www.comc.com/Cards/Basketball/2019/Panini_Hoops/87",
         isAuction |-> FALSE, bidCount |-> <<0>>, auctionEndTime |-> <<>>,
         sellerRating |-> <<>>, sellerFeedbackCount |-> <<>>, shippingCost |-> <<>>,
         year |-> "2019", cardNumber |-> "87", grade |-> "PSA 10",
         parallel |-> detectParallel(title), setName |-> "Hoops", sport |-> "basketball",
         playerName |-> null, grader |-> null, certNumber |-> null, isAuto |-> FALSE ] }

ScanPSAResponses ==
  { [kind |-> "null"],
    [kind |-> "cert",
     cert |-> Cert("2019", hps, "87", "LeBron James", "GEM MT 10", "Purple Pulsar",
                   "BASKETBALL CARDS")],
    [kind |-> "cert", cert |-> Cert("2018", "Hoops", "23", "LeBron James", "9", "Gold", null)] }

ScanCatalogs ==
  LET P == catalogProducts
  IN { <<>>, <<P.pulsar>>, <<P.purple, P.pulsarCheap>>, <<P.hoopsBase>> }

NextScan ==
  \/ \E it \in ScanItems : SearchListings(it)
  \/ \E l \in ComcListings : SearchComc(l)
  \/ Scan(scanSport)
  \/ \E resp \in ScanPSAResponses : PSAReturn(resp)
  \/ PSAThrow
  \/ \E prods \in ScanCatalogs : SearchReturn(prods)
  \/ SearchThrow
  \/ \E dbThrows \in BOOLEAN : Record(dbThrows)
  \/ NextListing

SpecScan == Init /\ [][NextScan]_vars

(***************************************************************************)
(* Two calls on one service, one after the other or overlapping            *)
(***************************************************************************)
OverlapListings ==
  { pulsarListing,
    [pulsarListing EXCEPT !.player = titles.short, !.year = null] }

OverlapPSAResponses == {noPSA} \cup RepeatPSAResponses

\* what the search fetch of the second call gives
OverlapSearches ==
  { [kind |-> "throw"],
    [kind |-> "products", products |-> <<>>],
    [kind |-> "products", products |-> <<catalogProducts.pulsar>>],
    [kind |-> "products", products |-> <<catalogProducts.pulsarCheap>>] }

NextOverlap ==
  \/ \E a \in OverlapListings : Call(a)
  \/ \E found \in OverlapSearches \ {[kind |-> "throw"]} : SearchReturn(found.products)
  \/ SearchThrow
  \/ \E a \in OverlapListings : OtherCall(a)
  \/ \E psa \in OverlapPSAResponses, found \in OverlapSearches : OtherReturn(psa, found)
  \/ Tick

SpecOverlap == Init /\ [][NextOverlap]_vars

(***************************************************************************)
(* PriceService.calculateDealScore (pricing.js 69-99)                      *)
(*                                                                         *)
(* Amounts are exact fractions, a seller rating is a fraction of 10, times *)
(* are in milliseconds.  An optional field of the listing is <<>> when it  *)
(* is null or undefined and <<x>> otherwise.                               *)
(***************************************************************************)
Tenths(n) == [num |-> n, den |-> 10]

\* x >= q and x > q for fractions with positive denominators
AtLeast(x, q) == x.num * q.den >= q.num * x.den
Above(x, q) == x.num * q.den > q.num * x.den

msPerHour == 1000 * 60 * 60

\* l is the listing.  pricing.js 79-89: the boost for an auction that ends soon with few bids;
\* hoursLeft < h is  end - now < h * msPerHour, and a comparison with an
\* undefined bidCount is false
auctionBoost(l) ==
  IF l.isAuction /\ l.auctionEndTime # <<>>
    THEN LET msLeft == l.auctionEndTime[1] - now
             bids == l.bidCount
         IN (IF msLeft < msPerHour /\ bids # <<>> /\ bids[1] < 5 THEN 10 ELSE 0)
            + (IF 4 * msLeft < msPerHour /\ bids # <<>> /\ bids[1] < 3 THEN 15 ELSE 0)
    ELSE 0

\* pricing.js 91-93
sellerBoost(l) ==
  (IF l.sellerRating # <<>> /\ AtLeast(l.sellerRating[1], Tenths(995))
     THEN 5 ELSE 0)
  + (IF l.sellerFeedbackCount # <<>> /\ l.sellerFeedbackCount[1] >= 1000
       THEN 3 ELSE 0)

\* pricing.js 95-98
shippingPenalty(l) ==
  IF l.shippingCost # <<>> /\ l.shippingCost[1].num # 0
       /\ Above(l.shippingCost[1], Dollars(500))
    THEN 5 ELSE 0

\* Math.min(Math.max(x, 0), 100)
clamp(x) == IF x < 0 THEN 0 ELSE IF x > 100 THEN 100 ELSE x

\* the score as a fraction over the market value: discount * 100 and the
\* boosts, before Math.round
rawScore(l, v) ==
  [ num |-> 100 * (v.num * l.currentPrice.den - l.currentPrice.num * v.den)
              + (auctionBoost(l) + sellerBoost(l) - shippingPenalty(l))
                  * v.num * l.currentPrice.den,
    den |-> v.num * l.currentPrice.den ]

calculateDealScore_unclamped(l, marketValue) ==
  IF marketValue = NoValue \/ marketValue[1].num <= 0 THEN 0
  ELSE LET score == rawScore(l, marketValue[1])
       IN round(score.num, score.den)

calculateDealScore_secondBoostAlone(l, marketValue) ==
  IF marketValue = NoValue \/ marketValue[1].num <= 0 THEN 0
  ELSE LET score == rawScore(l, marketValue[1])
           both == auctionBoost(l) = 25
       IN clamp(round(score.num, score.den) - (IF both THEN 10 ELSE 0))

calculateDealScore_premium(l, marketValue) ==
  IF marketValue = NoValue \/ marketValue[1].num <= 0 THEN 0
  ELSE LET score == rawScore(l, marketValue[1])
       IN clamp(100 - round(score.num, score.den))

calculateDealScore(l, marketValue) ==
  IF marketValue = NoValue \/ marketValue[1].num <= 0 THEN 0
  ELSE LET score == rawScore(l, marketValue[1])
       IN clamp(round(score.num, score.den))

(***************************************************************************)
(* The pure parts on their own: the parallel predicate and the price       *)
(* selection applied to one input                                          *)
(***************************************************************************)
ParallelInputs ==
  { null, "gold", "orange", "orange prizm", "Orange Prizm", "blue", "Blue Refractor",
    "purple", "purple pulsar", "Purple Pulsar Prizm", "fast break purple", "", "red",
    "infrared" }

GradeInputs ==
  { null, "PSA 10", "PSA 9", "PSA 8", "PSA 7", "BGS 10", "BGS 9.5", "BGS 9", "BGS 8",
    "PSA GEM MT 10", "psa gem mt 10", "Gem Mint", "PSA MINT 9", "SGC 10", "Raw" }

PriceInputs ==
  LET P == catalogProducts
  IN { P.pulsar, P.noPrices, P.zero, P.negative, P.looseOnly, P.bgs10, P.negativeLoose,
       P.pulsar @@ ("bgs-10-price" :> 8000) }

\* listing prices and market values, in cents
ScorePrices == {0, 4000, 11940, 12000, 12060, 30000}

ScoreMarketValues == {NoValue, Value(Dollars(0)), Value(Dollars(0 - 500)), Value(Dollars(12000))}

\* isAuction, auctionEndTime (milliseconds after the call) and bidCount
ScoreAuctions ==
  { <<FALSE, <<>>, <<0>>>>, <<FALSE, <<600000>>, <<0>>>>, <<TRUE, <<>>, <<0>>>>,
    <<TRUE, <<600000>>, <<0>>>>, <<TRUE, <<600000>>, <<2>>>>, <<TRUE, <<600000>>, <<3>>>>,
    <<TRUE, <<600000>>, <<5>>>>, <<TRUE, <<600000>>, <<>>>>, <<TRUE, <<900000>>, <<0>>>>,
    <<TRUE, <<1800000>>, <<4>>>>, <<TRUE, <<1800000>>, <<5>>>>, <<TRUE, <<3600000>>, <<0>>>>,
    <<TRUE, <<0 - 60000>>, <<0>>>> }

ScoreSellerRatings == {<<>>, <<Tenths(994)>>, <<Tenths(995)>>}
ScoreFeedbackCounts == {<<>>, <<999>>, <<1000>>}
ScoreShippingCosts == {<<>>, <<Dollars(0)>>, <<Dollars(500)>>, <<Dollars(501)>>}

ScoreListings ==
  { [ currentPrice |-> Dollars(price), isAuction |-> a[1], auctionEndTime |-> a[2],
      bidCount |-> a[3], sellerRating |-> rating, sellerFeedbackCount |-> count,
      shippingCost |-> shipping ] :
      price \in ScorePrices, a \in ScoreAuctions, rating \in ScoreSellerRatings,
      count \in ScoreFeedbackCounts, shipping \in ScoreShippingCosts }

\* texts naming a set: a title or a console name
SetTexts ==
  { prefix \o name \o suffix :
      prefix \in {"", "2019 Panini ", "2020-21 "},
      name \in { "Prizm Global Reach", "Prizm Draft Picks", "Prizm Instant Impact",
                 "Prizm Emergent", "Hoops Premium Stock", "HoopsPremiumStock", "Topps Chrome",
                 "Bowman Chrome", "Upper Deck", "Stadium Club", "Prizm", "Hoops", "Topps",
                 "Bowman", "Optic", "Donruss Optic", "Select" },
      suffix \in {"", " LeBron James #87", " Hoops Basketball", " Bowman Topps Prizm"} }

\* titles naming parallels
ParallelTitles ==
  { prefix \o name \o suffix :
      prefix \in {"", "2019 Panini Prizm LeBron James "},
      name \in { "Blue Velocity", "Hyper Blue Velocity", "Blue", "Silver Prizm", "Silver",
                 "Black Gold", "Black Gold Shimmer", "Gold Shimmer", "Red White Blue",
                 "Red/White/Blue", "Purple Pulsar", "Fast Break Purple", "Pulsar Purple",
                 "Red Ice Neon Orange", "Base" },
      suffix \in {"", " #87 PSA 10", " Gold #87"} }

PureInputs ==
  { [f |-> "parallelMatch", searchParallel |-> a, scpParallel |-> b] :
      a \in ParallelInputs, b \in ParallelInputs }
  \cup { [f |-> "selectPrice", product |-> p, searchGrade |-> g] :
           p \in PriceInputs, g \in GradeInputs }
  \cup { [f |-> "setName", text |-> t] : t \in SetTexts }
  \cup { [f |-> "detectParallel", title |-> t] : t \in ParallelTitles }
  \cup { [f |-> "calculateDealScore", listing |-> l, marketValue |-> v, otherPrice |-> Dollars(q)] :
           l \in ScoreListings, v \in ScoreMarketValues, q \in ScorePrices }

InitPure ==
  /\ hasSportsCardProToken = FALSE
  /\ hasPSACredentials = FALSE
  /\ InitService
  /\ pin \in PureInputs
  /\ pout = noPure

ApplyParallelMatch ==
  /\ pin.f = "parallelMatch"
  /\ pout = noPure
  /\ pout' = [ f |-> "parallelMatch",
               value |-> parallelMatch(pin.searchParallel, pin.scpParallel),
               swapped |-> parallelMatch(pin.scpParallel, pin.searchParallel) ]
  /\ UNCHANGED <<hasSportsCardProToken, hasPSACredentials, now, cache, pc, args, search,
                 products, matchIdx, outcome, ret, psaCalls, searchCalls, calls, started,
                 psaData, other, pin>>
  /\ UNCHANGED scanVars

ApplySelectPrice ==
  /\ pin.f = "selectPrice"
  /\ pout = noPure
  /\ pout' = [ f |-> "selectPrice",
               key |-> selectPrice(pin.product, pin.searchGrade).key,
               price |-> selectPrice(pin.product, pin.searchGrade).price ]
  /\ UNCHANGED <<hasSportsCardProToken, hasPSACredentials, now, cache, pc, args, search,
                 products, matchIdx, outcome, ret, psaCalls, searchCalls, calls, started,
                 psaData, other, pin>>
  /\ UNCHANGED scanVars

\* the score of the listing, and of the same listing at another price
ApplyDealScore ==
  /\ pin.f = "calculateDealScore"
  /\ pout = noPure
  /\ pout' = [ f |-> "calculateDealScore",
               score |-> calculateDealScore(pin.listing, pin.marketValue),
               otherScore |-> calculateDealScore([pin.listing EXCEPT !.currentPrice = pin.otherPrice],
                                                 pin.marketValue) ]
  /\ UNCHANGED <<hasSportsCardProToken, hasPSACredentials, now, cache, pc, args, search,
                 products, matchIdx, outcome, ret, psaCalls, searchCalls, calls, started,
                 psaData, other, pin>>
  /\ UNCHANGED scanVars

\* the set name each of the three parsers takes from one text
ApplySetName ==
  /\ pin.f = "setName"
  /\ pout = noPure
  /\ pout' = [ f |-> "setName",
               scp |-> parseSCPProduct(pin.text, "").set,
               title |-> parseTitle(pin.text).set,
               ebay |-> parseCardDetails(pin.text).setName ]
  /\ UNCHANGED <<hasSportsCardProToken, hasPSACredentials, now, cache, pc, args, search,
                 products, matchIdx, outcome, ret, psaCalls, searchCalls, calls, started,
                 psaData, other, pin>>
  /\ UNCHANGED scanVars

\* the parallel detected in one title by the catalog service and by the
\* eBay client
ApplyDetectParallel ==
  /\ pin.f = "detectParallel"
  /\ pout = noPure
  /\ pout' = [ f |-> "detectParallel",
               cardSets |-> detectParallel(pin.title),
               ebay |-> parseCardDetails(pin.title).parallel ]
  /\ UNCHANGED <<hasSportsCardProToken, hasPSACredentials, now, cache, pc, args, search,
                 products, matchIdx, outcome, ret, psaCalls, searchCalls, calls, started,
                 psaData, other, pin>>
  /\ UNCHANGED scanVars

NextPure ==
  \/ ApplyParallelMatch
  \/ ApplySelectPrice
  \/ ApplyDealScore
  \/ ApplySetName
  \/ ApplyDetectParallel

SpecPure == InitPure /\ [][NextPure]_vars

(***************************************************************************)
(* Properties                                                              *)
(***************************************************************************)
\* the resolver has come to its required-field check or beyond
PastFieldCheck ==
  outcome \in { "insufficient-identity", "searching", "no-results", "no-candidate-match",
                "no-price-data", "quote", "source-unavailable" }

\* the loop left a candidate in `product'
Selected == pc = "done" /\ outcome \in {"quote", "no-price-data"}

\* C1, as the code has it: whenever the card number, the year or the set is
\* still missing after the certificate and the title have been consulted, the
\* resolution ends there: no catalog search is made and the result is the
\* unknown one.  (The certificate lookup comes before that check.)
C1_NoSearchWithoutIdentity ==
  (PastFieldCheck /\ (~Truthy(search.number) \/ ~Truthy(search.year) \/ ~Truthy(search.set)))
    => /\ pc = "done"
       /\ outcome = "insufficient-identity"
       /\ searchCalls = 0
       /\ products = <<>>
       /\ ret.marketValue = NoValue
       /\ ret.source = "unknown"

\* C1: a resolution that ended for want of an identity field after it had
\* asked the certificate authority
C1_Witness ==
  /\ pc = "done"
  /\ outcome = "insufficient-identity"
  /\ psaCalls = 1
  /\ ~Truthy(search.year)

\* C1 as stated: with the card number, the year or the set missing the
\* resolution ends as insufficient and has made no external call, neither a
\* catalog search nor a certificate lookup
C1_Original ==
  (PastFieldCheck /\ (~Truthy(search.number) \/ ~Truthy(search.year) \/ ~Truthy(search.set)))
    => /\ outcome = "insufficient-identity"
       /\ searchCalls = 0
       /\ psaCalls = 0

C3_Plain(parallel) == IF ~Truthy(parallel) THEN "" ELSE trim(toLowerCase(parallel))
C3_Compound(parallel) == C3_Plain(parallel) \notin simpleColors

C4_RealQuote(quote, s, prods, i) ==
  /\ i \in 1..Len(prods)
  /\ i <= maxToCheckLimit
  /\ candidateMatches(s, prods[i])
  /\ LET sel == selectPrice(prods[i], s.grade)
     IN /\ TruthyNum(sel.price)
        /\ quote.marketValue = <<[num |-> sel.price[1], den |-> 100]>>
        /\ quote.priceType = sel.key
  /\ quote.productId = GetStr(prods[i], "id")
  /\ quote.source = "sportscardpro"

\* C4: a call of PriceService.getMarketValue that returns a value returns
\* the selected price column (cents / 100) of a candidate that passed every
\* match predicate, found by this call or, on a cache hit, kept in the cache
\* from the call that found it; every other call (no token, insufficient
\* identity, no results, no matching candidate, no price, source error)
\* returns marketValue null, source 'unknown', confidence 'none'
C4_NeverEstimates ==
  /\ pc = "done" =>
       IF outcome = "quote" THEN C4_RealQuote(ret, search, products, matchIdx)
       ELSE IF outcome = "cache-hit"
         THEN /\ cacheKey(args) \in DOMAIN cache
              /\ ret = cache[cacheKey(args)].data
       ELSE /\ ret.marketValue = NoValue
            /\ ret.source = "unknown"
            /\ ret.confidence = "none"
  /\ \A k \in DOMAIN cache :
       \E a \in RepeatListings :
         /\ cacheKey(a) = k
         /\ \E resp \in RepeatPSAResponses \cup {[kind |-> "none"]} :
              LET s == fallbackFromTitle(a, IF resp.kind = "cert"
                                              THEN applyCert(initialSearch(a), resp.cert)
                                              ELSE initialSearch(a))
              IN \E prods \in RepeatCatalogs :
                   C4_RealQuote(cache[k].data, s, prods, findProduct(s, prods))

\* C4: a call answered from the cache with a value
C4_Witness ==
  /\ pc = "done"
  /\ outcome = "cache-hit"
  /\ calls = 2
  /\ ret.marketValue # NoValue

\* C5, as the code has it: the selected candidate has the listing's
\* autograph flag, and the listing's insert line when the listing has one; a
\* candidate that carries an insert line can be selected for a listing that
\* has none
C5_AutoAndListedInsert ==
  Selected =>
    LET scpData == scpDataOf(products[matchIdx])
    IN /\ scpData.isAuto = search.isAuto
       /\ Truthy(search.insertSet)
            => toLowerCase(search.insertSet) = toLowerCase(OrElse(scpData.insertSet, ""))

\* C5: a listing with an insert line was priced
C5_Witness ==
  /\ pc = "done"
  /\ outcome = "quote"
  /\ search.insertSet = "splash"
  /\ scpDataOf(products[matchIdx]).insertSet = "splash"

\* C5 as stated: the selected candidate has the listing's autograph flag
\* and the two insert lines are equal, an absent one equal only to an absent
\* one
C5_Original ==
  Selected =>
    LET scpData == scpDataOf(products[matchIdx])
    IN /\ scpData.isAuto = search.isAuto
       /\ toLowerCase(OrElse(search.insertSet, "")) = toLowerCase(OrElse(scpData.insertSet, ""))

\* C6, as the code has it: the selected candidate's year is the listing's
\* year or one off it, never further
C6_YearWithinOne ==
  Selected =>
    LET listed == parseInt(search.year)
        candidate == parseInt(scpDataOf(products[matchIdx]).year)
    IN /\ listed # NaN
       /\ candidate # NaN
       /\ listed[1] - candidate[1] \in {-1, 0, 1}

\* C6: a 2019 listing was priced from a 2020 candidate
C6_Witness ==
  /\ pc = "done"
  /\ outcome = "quote"
  /\ search.year = "2019"
  /\ scpDataOf(products[matchIdx]).year = "2020"

\* C6 as stated: the selected candidate's year is exactly the listing's
C6_Original ==
  Selected => String(search.year) = String(scpDataOf(products[matchIdx]).year)

\* C7 as stated: the selected candidate is of the listing's sport
C7_Original ==
  (Selected /\ "genre" \in DOMAIN products[matchIdx])
    => toLowerCase(products[matchIdx]["genre"]) = toLowerCase(search.sport) \o " card"

\* C8: of the candidates in the order of the response, the one selected is
\* the lowest-index one among the first five that the loop accepts (not
\* skipped as a non-card, every match predicate true), the quote is that
\* one's, no candidate at position six or later is ever selected, and with
\* none of the first five accepted the result is no match
C8_FirstOfFive ==
  (pc = "done" /\ outcome \in {"quote", "no-price-data", "no-candidate-match"}) =>
    LET passing == { i \in 1..Len(products) :
                       i <= maxToCheckLimit /\ candidateMatches(search, products[i]) }
    IN /\ matchIdx <= maxToCheckLimit
       /\ IF passing = {}
            THEN /\ outcome = "no-candidate-match"
                 /\ matchIdx = 0
                 /\ ret.marketValue = NoValue
            ELSE /\ outcome # "no-candidate-match"
                 /\ matchIdx \in passing
                 /\ \A i \in passing : matchIdx <= i
                 /\ outcome = "quote" => ret.productId = GetStr(products[matchIdx], "id")

\* C8: a response whose sixth candidate would have passed, none of the
\* first five passing, ended in no match
C8_Witness ==
  /\ pc = "done"
  /\ Len(products) > maxToCheckLimit
  /\ candidateMatches(search, products[maxToCheckLimit + 1])
  /\ outcome = "no-candidate-match"
  /\ matchIdx = 0

\* the column the grade names, by the table of C9: [key, price]
C9_Column(product, grade, topHasSecondColumn) ==
  LET g == IF Truthy(grade) THEN toUpperCase(grade) ELSE ""
      mid == Includes(g, "PSA 9") \/ Includes(g, "BGS 9")
      top == \/ Includes(g, "PSA 10")
             \/ Includes(g, "BGS 10")
             \/ (Includes(g, "GEM") /\ Includes(g, "10"))
      entry == Includes(g, "PSA 8") \/ Includes(g, "BGS 8")
  IN IF mid THEN [key |-> "graded-price", price |-> GetNum(product, "graded-price")]
     ELSE IF top
       THEN [ key |-> "manual-only-price",
              price |-> IF topHasSecondColumn /\ ~TruthyNum(GetNum(product, "manual-only-price"))
                          THEN GetNum(product, "bgs-10-price")
                          ELSE GetNum(product, "manual-only-price") ]
     ELSE IF entry THEN [key |-> "new-price", price |-> GetNum(product, "new-price")]
     ELSE [key |-> "loose-price", price |-> GetNum(product, "loose-price")]

\* with the fallback of C9: an absent (or zero) price at the column gives
\* the loose column
C9_Selected(product, grade, topHasSecondColumn) ==
  LET column == C9_Column(product, grade, topHasSecondColumn)
  IN IF TruthyNum(column.price) THEN column
     ELSE [key |-> "loose-price", price |-> GetNum(product, "loose-price")]

\* C9, as the code has it: PSA/BGS 9 and 9.5 select graded-price; PSA/BGS
\* 10 and a grade with both "gem" and "10" select manual-only-price or, when
\* that one is absent, bgs-10-price; PSA/BGS 8 select new-price; every other
\* grade, and an absent price at the selected column, gives loose-price; one
\* column per grade
C9_GradeToColumn ==
  pout.f = "selectPrice" =>
    /\ pout.price = C9_Selected(pin.product, pin.searchGrade, TRUE).price
    /\ pout.key = C9_Selected(pin.product, pin.searchGrade, TRUE).key

\* C9: a top grade priced from bgs-10-price, manual-only-price being absent
C9_Witness ==
  /\ pout.f = "selectPrice"
  /\ pin.searchGrade = "PSA 10"
  /\ "manual-only-price" \notin DOMAIN pin.product
  /\ pout.price = <<8000>>
  /\ pout.key = "manual-only-price"

\* C9 as stated: the top grades select the one top column, and an absent
\* price there gives the loose column
C9_Original ==
  pout.f = "selectPrice" =>
    /\ pout.price = C9_Selected(pin.product, pin.searchGrade, FALSE).price
    /\ pout.key = C9_Selected(pin.product, pin.searchGrade, FALSE).key

\* C10: a quote's value is strictly positive; a selected candidate whose
\* usable price (the grade's column or, that one absent, the loose column)
\* is missing or not positive ends in the no-price-data failure with no
\* value, and otherwise the value is that price / 100
C10_PositiveOrNoPrice ==
  /\ (pc = "done" /\ outcome = "quote") =>
       /\ Len(ret.marketValue) = 1
       /\ ret.marketValue[1].num > 0
       /\ ret.marketValue[1].den = 100
  /\ Selected =>
       LET usable == selectPrice(products[matchIdx], search.grade).price
       IN IF ~TruthyNum(usable) \/ usable[1] <= 0
            THEN /\ outcome = "no-price-data"
                 /\ ret.marketValue = NoValue
                 /\ ret.source = "unknown"
            ELSE /\ outcome = "quote"
                 /\ ret.marketValue = <<[num |-> usable[1], den |-> 100]>>

\* C10: a selected candidate with a negative price at the grade's column
\* ended in no-price-data
C10_Witness ==
  /\ pc = "done"
  /\ outcome = "no-price-data"
  /\ matchIdx = 1
  /\ TruthyNum(selectPrice(products[matchIdx], search.grade).price)
  /\ selectPrice(products[matchIdx], search.grade).price[1] < 0

\* C11: when the catalog search throws, PriceService.getMarketValue still
\* returns to its caller, and what it returns is the unknown result: no
\* market value, source 'unknown', confidence 'none'; nothing is written to
\* the cache and the service takes the next listing as before.
C11_ThrowGivesUnknown ==
  outcome = "source-unavailable" =>
    /\ pc = "done"
    /\ searchCalls = 1
    /\ DOMAIN ret = DOMAIN unknownResult(0)
    /\ ret = unknownResult(ret.lastUpdated)
    /\ ret.lastUpdated <= now
    /\ ~cacheHit(cache, cacheKey(args), now) \/ cache[cacheKey(args)].data.source # "unknown"

C11_Witness ==
  /\ outcome = "source-unavailable"
  /\ pc = "done"
  /\ ret.source = "unknown"
  /\ calls = 1

\* the three signals of a listing under resolution: the certificate record
\* (null fields when no lookup succeeded), the seller's item specifics, the
\* title as parseCardDetails reads it
C12_Cert ==
  IF psaData.kind = "cert" THEN psaData.cert
  ELSE Cert(null, null, null, null, null, null, null)
C12_Aspects == extractAspects(item.localizedAspects)
C12_Title == parseCardDetails(item.title)
C12_Pick(certValue, aspectValue, titleValue) ==
  IF Truthy(certValue) THEN certValue
  ELSE IF Truthy(aspectValue) THEN aspectValue
  ELSE titleValue
\* year, set, card number and grade of the identity
C12_PlainFields ==
  LET resolverTitle == parseTitle(item.title)
      long == Len(item.title) > titleLengthLimit
  IN /\ search.year = C12_Pick(C12_Cert.Year, C12_Aspects.year,
                               IF ~Truthy(C12_Title.year) /\ long
                                 THEN resolverTitle.year ELSE C12_Title.year)
     /\ search.set = C12_Pick(C12_Cert.Brand, C12_Aspects.setName,
                              IF ~Truthy(C12_Title.setName) /\ long
                                THEN resolverTitle.set ELSE C12_Title.setName)
     /\ search.number = C12_Pick(C12_Cert.CardNumber, C12_Aspects.cardNumber,
                                 C12_Title.cardNumber)
     /\ search.grade = C12_Pick(IF Truthy(C12_Cert.CardGrade)
                                  THEN "PSA " \o C12_Cert.CardGrade ELSE null,
                                C12_Aspects.grade, C12_Title.grade)
C12_Resolving == platform = "ebay" /\ wpc \in {"awaitValue", "logged"} /\ PastFieldCheck

\* C12, as amended: year, set, card number and grade of the identity come
\* from the certificate when a lookup gave the field, else from the seller's
\* item specific, else from the title.  The parallel comes from the
\* certificate when it has a variety; else, of the seller's and the title's
\* parallel, the one that is there, and when both are there the title's,
\* unless the seller's contains it and is longer.  The player name of the
\* query is a known player found in the title, else the certificate's
\* subject, else the title.
C12_FieldPriority ==
  C12_Resolving =>
    /\ C12_PlainFields
    /\ search.parallel =
         IF Truthy(C12_Cert.Variety) THEN toLowerCase(C12_Cert.Variety)
         ELSE IF ~Truthy(C12_Aspects.parallel) THEN C12_Title.parallel
         ELSE IF ~Truthy(C12_Title.parallel) THEN C12_Aspects.parallel
         ELSE IF /\ Includes(C12_Aspects.parallel, C12_Title.parallel)
                 /\ Len(C12_Aspects.parallel) > Len(C12_Title.parallel)
           THEN C12_Aspects.parallel
         ELSE C12_Title.parallel
    /\ search.cleanPlayer =
         IF firstKnownPlayer(knownPlayers, toLowerCase(item.title)) # null
           THEN firstKnownPlayer(knownPlayers, toLowerCase(item.title))
         ELSE IF Truthy(C12_Cert.Subject) THEN C12_Cert.Subject
         ELSE item.title

\* a certificate's variety has replaced the conflicting parallel of the title
C12_Witness ==
  /\ C12_Resolving
  /\ psaData.kind = "cert"
  /\ C12_Title.parallel = "purple"
  /\ search.parallel = "purple pulsar"
  /\ outcome = "quote"

\* C12 as stated: every field, the parallel included, is the certificate's,
\* else the seller's, else the title's
C12_Original ==
  C12_Resolving =>
    /\ C12_PlainFields
    /\ search.parallel =
         C12_Pick(IF Truthy(C12_Cert.Variety) THEN toLowerCase(C12_Cert.Variety) ELSE null,
                  C12_Aspects.parallel, C12_Title.parallel)

\* a certificate lookup gave the identity at least one field
C13_CertContributed ==
  /\ psaData.kind = "cert"
  /\ \/ \E f \in {"Year", "Brand", "CardNumber", "Subject", "CardGrade", "Variety"} :
          Truthy(psaData.cert[f])
     \/ Truthy(psaData.cert.Category) /\ Includes(toLowerCase(psaData.cert.Category), "auto")

\* C13: a resolution that ends with a quote has confidence 'very-high' if a
\* certificate lookup gave the identity a field and 'high' if not; a
\* resolution that ends without a quote has confidence 'none'.
C13_Original ==
  pc = "done" /\ outcome # "cache-hit" =>
    ret.confidence = IF outcome # "quote" THEN "none"
                     ELSE IF C13_CertContributed THEN "very-high"
                     ELSE "high"

\* C14: two calls with the same arguments that start less than one TTL
\* apart, one after the other or overlapping, query the catalog no more than
\* once between them and return the same result.
C14_Original ==
  /\ pc = "done"
  /\ other.pc = "done"
  /\ other.args = args
  /\ other.started - started < cacheTTL
  /\ started - other.started < cacheTTL
  => /\ searchCalls + other.searchCalls <= 1
     /\ other.ret.marketValue = ret.marketValue
     /\ other.ret.source = ret.source
     /\ other.ret.confidence = ret.confidence

\* C15: once a resolution has ended without a quote (no result, no
\* matching candidate, no price data, or the search failing), a call with
\* the same arguments that starts later, less than one TTL after the first,
\* is answered from the cache and makes no external call.
C15_Original ==
  /\ pc = "done"
  /\ outcome \in {"no-results", "no-candidate-match", "no-price-data", "source-unavailable"}
  /\ other.pc # "idle"
  /\ other.args = args
  /\ other.started > ret.lastUpdated
  /\ other.started - started < cacheTTL
  => /\ other.pc = "done"
     /\ other.outcome = "cache-hit"
     /\ other.searchCalls = 0

C17_Monotone ==
  pout.f = "calculateDealScore" /\ pin.marketValue # NoValue /\ pin.marketValue[1].num > 0
  => /\ pin.listing.currentPrice.num <= pin.otherPrice.num => pout.score >= pout.otherScore
     /\ pin.listing.currentPrice.num >= pin.otherPrice.num => pout.score <= pout.otherScore
     /\ auctionBoost(pin.listing) = 0 /\ sellerBoost(pin.listing) = 0
          /\ pin.listing.currentPrice.num >= pin.marketValue[1].num
        => pout.score = 0

C17_Witness ==
  /\ pout.f = "calculateDealScore"
  /\ pin.marketValue = Value(Dollars(12000))
  /\ pin.listing.currentPrice = Dollars(4000)
  /\ pin.otherPrice = Dollars(11940)
  /\ pout.score > pout.otherScore
  /\ pout.otherScore > 0

\* C18: the score is clamp(round(100 * (value - price) / value) + adjustments)
\* with +10 for an auction under 1 hour left and under 5 bids, +15 more
\* under 15 minutes left and under 3 bids, +5 for a seller rating of 99.5 or
\* more, +3 for a feedback count of 1000 or more, -5 for shipping above 5,
\* each only when its field is there; and 0 when the market value is null
\* or not positive.
C18_Adjustments ==
  LET l == pin.listing
      auction == l.isAuction /\ l.auctionEndTime # <<>> /\ l.bidCount # <<>>
  IN (IF auction /\ l.auctionEndTime[1] - now < 60 * 60 * 1000 /\ l.bidCount[1] < 5
        THEN 10 ELSE 0)
     + (IF auction /\ l.auctionEndTime[1] - now < 15 * 60 * 1000 /\ l.bidCount[1] < 3
          THEN 15 ELSE 0)
     + (IF l.sellerRating # <<>> /\ 10 * l.sellerRating[1].num >= 995 * l.sellerRating[1].den
          THEN 5 ELSE 0)
     + (IF l.sellerFeedbackCount # <<>> /\ l.sellerFeedbackCount[1] >= 1000 THEN 3 ELSE 0)
     - (IF l.shippingCost # <<>> /\ l.shippingCost[1].num > 5 * l.shippingCost[1].den
          THEN 5 ELSE 0)

C18_Expected ==
  IF pin.marketValue = NoValue \/ pin.marketValue[1].num <= 0 THEN 0
  ELSE LET value == pin.marketValue[1].num
           price == pin.listing.currentPrice.num
           base == round(100 * (value - price), value)
           sum == base + C18_Adjustments
       IN IF sum < 0 THEN 0 ELSE IF sum > 100 THEN 100 ELSE sum

C19_Listing ==
  /\ hasSportsCardProToken
  /\ item = Item("v1", titles.pulsar, Dollars(4000), <<>>)

C19_Resolved ==
  /\ C19_Listing
  /\ pc = "done"
  /\ outcome # "cache-hit"
  /\ products = <<catalogProducts.pulsar>>

C19_EndToEnd ==
  /\ C19_Listing
     => /\ listing.year = "2019"
        /\ listing.setName = "Hoops Premium Stock"
        /\ listing.cardNumber = "87"
        /\ listing.parallel = "purple pulsar"
        /\ listing.grade = "PSA 10"
        /\ listing.currentPrice = Dollars(4000)
  /\ C19_Resolved
     => /\ outcome = "quote"
        /\ matchIdx = 1
        /\ ret.productId = "p1"
        /\ ret.priceType = "manual-only-price"
        /\ ret.marketValue = Value(Dollars(12000))
  /\ C19_Resolved /\ wpc = "logged" /\ log.reason # "error"
     => /\ log.market_value = Value(Dollars(12000))
        /\ log.deal_score = 67

C19_Witness ==
  /\ C19_Resolved
  /\ wpc = "logged"
  /\ log.outcome = "saved"
  /\ log.deal_score = 67
  /\ \E r \in rows : r.ebay_item_id = "v1" /\ r.deal_score = 67

\* C20: every row of the listings table has a market value that is there
\* and above 0, the source of that value, and a deal score that is the score
\* of the row's price against that value, within 0..100 and not below the
\* configured minimum; and a row is inserted only for the listing under way,
\* once its resolution has returned a result other than unknown, with the
\* value and the source of that result.
C20_Rows ==
  \A r \in rows :
    /\ r.market_value # NoValue
    /\ r.market_value[1].num > 0
    /\ r.market_value_source \notin {null, "unknown"}
    /\ r.deal_score \in 0..100
    /\ r.deal_score >= settings.minDealScore
    /\ r.deal_score = round(100 * (r.market_value[1].num - r.current_price.num),
                            r.market_value[1].num)

C20_Insert ==
  rows' # rows
  => /\ pc = "done"
     /\ outcome \in {"quote", "cache-hit"}
     /\ ret.source # "unknown"
     /\ \E r \in rows' :
          /\ rows' = rows \cup {r}
          /\ r.title = listing.title
          /\ r.listing_url = listing.listingUrl
          /\ r.current_price = listing.currentPrice
          /\ r.market_value = ret.marketValue
          /\ r.market_value_source = ret.source

C20_OnlyResolved == []C20_Rows /\ [][C20_Insert]_vars

C20_Witness ==
  /\ \E r \in rows : r.ebay_item_id = "v1"
  /\ wpc = "logged"
  /\ log.outcome = "rejected"
  /\ log.reason = "no match"
  /\ listing.ebayItemId # "v1"
  /\ \A r \in rows : r.ebay_item_id # listing.ebayItemId

\* C21: the deal score the worker saves for a listing is
\* PriceService.calculateDealScore of that listing and its market value,
\* with the auction, seller and shipping adjustments.
C21_Original ==
  wpc = "logged" /\ log.outcome = "saved"
  => log.deal_score = calculateDealScore(listing, log.market_value)

\* C22: in each of the three set pattern lists the compound patterns come
\* before the broader ones, so that for a text in which compound set names
\* of the list occur the parser returns one of them, never a shorter name.
C22_Compound(patterns) ==
  { patterns[i].name : i \in { j \in 1..Len(patterns) :
      /\ Includes(patterns[j].name, " ")
      /\ firstSetPattern(<<patterns[j]>>, toUpperCase(pin.text)) # null } }

C24_Original ==
  pout.f = "setName"
  => /\ toLowerCase(OrElse(pout.scp, "")) = toLowerCase(OrElse(pout.title, ""))
     /\ pout.title # null => setMatch(pout.title, [set |-> pout.scp])

\* C23: a title that contains compound parallels of the list is never
\* given a simple parallel found on its own.  The catalog service returns
\* the longest compound parallel the title contains, in the normal form of
\* normalizeParallel; the eBay client returns the compound parallel of the
\* title that comes first in its list, the red, white and blue variants as
\* "red white blue".
C23_CatalogCompounds ==
  { allParallels[i] : i \in { j \in 1..Len(allParallels) :
      /\ \E c \in {" ", "-", "/"} : Includes(allParallels[j], c)
      /\ Includes(toLowerCase(pin.title), allParallels[j]) } }

C23_EbayCompounds ==
  { parallels[i] : i \in { j \in 1..Len(parallels) :
      /\ \E c \in {" ", "/"} : Includes(parallels[j], c)
      /\ Includes(toUpperCase(pin.title), parallels[j]) } }

C23_Longest(S) == { p \in S : \A q \in S : Len(q) <= Len(p) }

C23_Rwb(p) == Includes(p, "red") /\ Includes(p, "white") /\ Includes(p, "blue")

C23_CompoundNotShadowed ==
  pout.f = "detectParallel"
  => /\ C23_CatalogCompounds # {}
        => \E p \in C23_Longest(C23_CatalogCompounds) :
             pout.cardSets = cardSetsNormalizeParallel(p)
     /\ C23_EbayCompounds # {}
        => \E p \in C23_EbayCompounds :
             pout.ebay = IF C23_Rwb(toLowerCase(p)) THEN "red white blue" ELSE toLowerCase(p)

C23_Witness ==
  /\ pout.f = "detectParallel"
  /\ pin.title = "2019 Panini Prizm LeBron James Hyper Blue Velocity Gold #87"
  /\ pout.cardSets = "blue velocity"
  /\ pout.ebay = "blue velocity"

\* C23 as stated: the detected parallel is the longest compound parallel
\* contained in the title, under its own name.
C23_Original ==
  pout.f = "detectParallel"
  => /\ C23_CatalogCompounds # {} => pout.cardSets \in C23_Longest(C23_CatalogCompounds)
     /\ C23_EbayCompounds # {}
        => pout.ebay \in { toLowerCase(p) : p \in C23_Longest(C23_EbayCompounds) }

\* C25: a call is answered from the cache only by an entry younger than
\* cacheTTL at the start of the call; a call that starts when the entry of
\* an earlier quote is cacheTTL old or older is resolved afresh, and its
\* quote replaces the entry, with the time of the new result.
C25_Fresh ==
  /\ pc = "done" /\ outcome = "quote"
  /\ other.pc # "idle" /\ other.args = args
  /\ other.started - ret.lastUpdated >= cacheTTL

C25_TTL ==
  /\ pc = "done" /\ outcome = "cache-hit"
     => /\ cacheKey(args) \in DOMAIN cache
        /\ started - cache[cacheKey(args)].timestamp < cacheTTL
        /\ ret = cache[cacheKey(args)].data
  /\ other.pc = "done" /\ other.outcome = "cache-hit"
     => /\ cacheKey(other.args) \in DOMAIN cache
        /\ other.started - cache[cacheKey(other.args)].timestamp < cacheTTL
        /\ other.ret = cache[cacheKey(other.args)].data
  /\ C25_Fresh
     => /\ other.outcome # "cache-hit"
        /\ other.pc = "done" /\ other.outcome = "quote"
           => /\ cache[cacheKey(args)].data = other.ret
              /\ cache[cacheKey(args)].timestamp >= other.started
              /\ cache[cacheKey(args)].timestamp = other.ret.lastUpdated

C25_Witness ==
  /\ C25_Fresh
  /\ other.started - ret.lastUpdated = cacheTTL
  /\ other.pc = "done" /\ other.outcome = "quote"
  /\ other.ret.marketValue # ret.marketValue
  /\ cache[cacheKey(args)].timestamp = other.started

\* C26: a listing whose resolution failed, or whose saving the database
\* rejected, ends with one scan-log row of outcome "rejected"; the worker
\* then goes on to the next listing, and later listings are still saved.
C26_Failed ==
  /\ wpc = "logged"
  /\ \/ log.reason = "error"
     \/ pc = "done" /\ outcome = "source-unavailable"

C26_OneListingEnds ==
  C26_Failed
  => /\ log.outcome = "rejected"
     /\ log.reason \in {"error", "no match"}
     /\ logWrites = 1
     /\ calls < MaxCalls => ENABLED NextListing

C26_Witness ==
  /\ errors = 1
  /\ wpc = "logged"
  /\ log.outcome = "saved"
  /\ calls = 2

\* C29: every listing handed to processListings gets one scan-log write,
\* with outcome "rejected", "saved" or "matched", whatever its price and
\* grade.
C29_Original ==
  wpc \in {"logged", "dropped"}
  => /\ logWrites = 1
     /\ log.outcome \in {"rejected", "saved", "matched"}

\* C30: the listings table never holds two rows for one marketplace
\* listing, on eBay and on COMC.
C30_Original ==
  \A r1 \in rows : \A r2 \in rows :
    r1.platform = r2.platform /\ r1.listing_url = r2.listing_url => r1 = r2

\* C27: when the certificate lookup throws or gives no certificate record,
\* the search fields are those of a resolution without a lookup (the
\* caller's values and what the title gives), nothing is thrown to the
\* caller, and the resolution goes on.
C27_NoCertificate ==
  /\ pc \in {"awaitSearch", "done"}
  /\ psaCalls = 1
  /\ psaData.kind \in {"throw", "null", "empty"}

C27_LookupLeavesFields ==
  C27_NoCertificate
  => /\ search = [identityOf(args, noPSA) EXCEPT !.query = search.query]
     /\ search.number = args.cardNumber
     /\ search.parallel = args.parallel
     /\ search.year \in {args.year, parseTitle(args.player).year}
     /\ search.set \in {args.set, parseTitle(args.player).set}
     /\ ret # [threw |-> TRUE]
     /\ outcome \in {"searching", "insufficient-identity", "quote", "no-results",
                     "no-candidate-match", "no-price-data", "source-unavailable"}

C27_Witness ==
  /\ C27_NoCertificate
  /\ psaData.kind = "throw"
  /\ pc = "done"
  /\ outcome = "quote"

\* the pair reaches one of the two simple-colour branches of the predicate:
\* both names are non-empty and differ after normalizeParallel, and one is a
\* simple colour that the other ends with
C28_SimpleBranch(a, b) ==
  LET x == normalizeParallel(a)
      y == normalizeParallel(b)
  IN /\ x # "" /\ y # "" /\ x # y
     /\ \/ x \in simpleColors /\ EndsWith(y, x)
        \/ y \in simpleColors /\ EndsWith(x, y)

\* C28: the parallel predicate holds exactly when the two parallels are equal
\* after normalizeParallel (a missing or empty parallel normalising to the
\* empty name of the base card), and a pair that reaches a simple-colour
\* branch never matches
C28_EqualAfterNormalize ==
  pout.f = "parallelMatch" =>
    /\ pout.value = (normalizeParallel(pin.searchParallel) = normalizeParallel(pin.scpParallel))
    /\ C28_SimpleBranch(pin.searchParallel, pin.scpParallel) => ~pout.value

\* C28: the predicate was applied to a simple colour and a longer name that
\* ends with it, took the simple-colour branch and answered no
C28_Witness ==
  /\ pout.f = "parallelMatch"
  /\ pin.searchParallel = "red"
  /\ pin.scpParallel = "infrared"
  /\ C28_SimpleBranch(pin.searchParallel, pin.scpParallel)
  /\ ~pout.value
  /\ ~pout.swapped

====
